---- MODULE Spec2Model ----
(***************************************************************************)
(* Model of the Meshtastic sniffer's hourly NDJSON writer                  *)
(* (meshtastic_sniffer_echo.py / meshtastic_usb_sniffer_echo.py) and of    *)
(* the web UI's log loader (meshtastic_webui_standalonone.py).             *)
(*                                                                         *)
(* Spec     : the sniffer process -- main thread, periodic snapshot        *)
(*            thread, library callback thread, signal handler -- sharing   *)
(*            one HourlyNDJSONWriter, with a wall clock, I/O faults and    *)
(*            restarts of the process on the same label.                   *)
(* LoadSpec : load_bundle applied to bounded sets of log files.            *)
(***************************************************************************)
EXTENDS Integers, Sequences, FiniteSets, TLC

\* ------------------------------------------------------------------ bounds
MaxHour == 1
MaxEvents == 3
MaxFaults == 2

\* --------------------------------------------------------------- constants
Threads == {"main", "snap", "cb"}
NoThread == "none"
NoHour == -1
NoFp == [file |-> NoHour, open |-> FALSE]
NoEvent == [id |-> 0, kind |-> "none", tsHour |-> NoHour]
Hours == 0..MaxHour

VARIABLES
    clock,       \* wall clock, in whole hours (what now_ts() reads)
    nextId,      \* identity of the next event to be built
    faults,      \* I/O failures injected so far
    proc,        \* "running" | "exited" (sys.exit) | "died" (uncaught exception)
    pc,          \* position of each thread
    ev,          \* event each thread is writing
    bucket,      \* write()'s local hour_bucket, per thread
    outcome,     \* what the call site did with the last write() that raised
    cur_hour,    \* HourlyNDJSONWriter.cur_hour
    fp,          \* HourlyNDJSONWriter.fp
    lock,        \* holder of HourlyNDJSONWriter.lock
    pending,     \* text sitting in the open handle's buffer, not yet in the file
    files,       \* hour bucket -> chunks handed to the OS for that file
    synced,      \* hour bucket -> number of chunks known durable (fsync'ed)
    stop_event,  \* threading.Event stop_event
    hpc,         \* position of the signal handler frame on the main thread
    returned,    \* ids of the events whose write() returned normally
    shutClosed,  \* shutdown's WRITER.close() has completed in this process
    disk,        \* loader input: the label directory's files
    request,     \* loader input: window specification
    bundle,      \* loader output: the DataBundle
    lpc,         \* loader position
    query,       \* the call the handler made last on the loaded directory
    result,      \* what that call returned
    echo_cfg,    \* the sniffer's echo controls and MY_IDS
    calls,       \* the topic_receive calls made: packet, send outcome, records
    labelled,    \* the sniffer variant, the label given and the writer's label
    opened,      \* the paths _open_for_hour has opened
    zone         \* the sniffer's clock: USE_UTC and the local UTC offset

wvars == <<clock, nextId, faults, proc, pc, ev, bucket, outcome,
           cur_hour, fp, lock, pending, files, synced, stop_event, hpc,
           returned, shutClosed>>
lvars == <<disk, request, bundle, lpc, query, result>>
evars == <<echo_cfg, calls, labelled, opened, zone>>
vars == <<wvars, lvars, evars>>

\* ------------------------------------------------------------------ helpers
now_ts == clock

NewEvent(kind) == [id |-> nextId, kind |-> kind, tsHour |-> now_ts]

Chunk(e, part) == [ev |-> e, part |-> part]

\* The thread t can take a step: the process lives, and the main thread's own
\* frame is suspended while the signal handler runs on top of it.
Runnable(t) ==
    /\ proc = "running"
    /\ (t = "main" => hpc \in {"none", "done"})

LockFree_NoMutex == TRUE

\* threading.Lock.acquire() succeeds only while nobody holds the lock.
LockFree == lock = NoThread

\* Move thread t to label l; nothing returns or raises.
goto(t, l) ==
    /\ pc' = [pc EXCEPT ![t] = l]
    /\ UNCHANGED <<returned, outcome, proc>>

\* Same, for the steps inside write(): its locals stay as they are.
step(t, l) ==
    /\ goto(t, l)
    /\ UNCHANGED <<ev, bucket>>

\* WRITER.write(event) returned to its call site.
write_returns(t) ==
    /\ returned' = returned \cup {ev[t].id}
    /\ ev' = [ev EXCEPT ![t] = NoEvent]
    /\ bucket' = [bucket EXCEPT ![t] = NoHour]
    /\ outcome' = outcome
    /\ proc' = proc
    /\ pc' = [pc EXCEPT ![t] =
                CASE t = "main" -> "m_loop"
                  [] t = "snap" -> "s_top"
                  [] t = "cb" /\ ev[t].kind = "rx" -> "cb_echo"
                  [] OTHER -> "cb_idle"]

\* WRITER.write(event) raised: topic_receive catches and warns,
\* periodic_snapshots catches and continues silently, the connection callback
\* lets it propagate into the library, main() has no handler around
\* snapshot(label="snapshot_start").
write_raises(t) ==
    /\ returned' = returned
    /\ ev' = [ev EXCEPT ![t] = NoEvent]
    /\ bucket' = [bucket EXCEPT ![t] = NoHour]
    /\ outcome' =
         CASE t = "main" -> "uncaught"
           [] t = "snap" -> "swallowed"
           [] t = "cb" /\ ev[t].kind = "snapshot_connect" -> "propagated"
           [] OTHER -> "warned"
    /\ proc' = proc
    /\ pc' = [pc EXCEPT ![t] =
                CASE t = "main" -> "m_dead"
                  [] t = "snap" -> "s_top"
                  [] OTHER -> "cb_idle"]

\* A call site builds the event (its ts read from the clock now) and calls
\* WRITER.write.
call_write(t, kind) ==
    /\ Runnable(t)
    /\ nextId <= MaxEvents
    /\ ev' = [ev EXCEPT ![t] = NewEvent(kind)]
    /\ nextId' = nextId + 1
    /\ goto(t, "w_bucket")
    /\ UNCHANGED <<clock, faults, bucket, cur_hour, fp, lock, pending,
                   files, synced, stop_event, hpc, shutClosed, lvars, evars>>

\* ---------------------------------------------------- HourlyNDJSONWriter
\* write(): if self.cur_hour != hour_bucket or self.fp is None
NeedsRotate(h) == cur_hour # h \/ fp = NoFp

OpenedContent_Truncate(fs, h) == <<>>

\* open(path, "a"): an existing file keeps its content, a missing one is created.
OpenedContent(fs, h) == IF h \in DOMAIN fs THEN fs[h] ELSE <<>>

\* _open_for_hour(hour_bucket): the file <label>_<hour_bucket>.ndjson
OpenTarget(h) == h

\* fp.flush(): the text in the handle's buffer reaches the file.  Under the
\* writer lock the buffer is empty whenever a file is closed.
Flushed(handle, ok) ==
    IF handle.open /\ ok /\ pending # <<>>
    THEN [files EXCEPT ![handle.file] = @ \o pending]
    ELSE files

\* self.fp after the try: flush; fsync; close of write()'s rotation: a failure
\* (cf = 1) skips the close and is swallowed; a handle that is already closed
\* raises in flush, swallowed as well.
AfterClose(cf) ==
    IF fp # NoFp /\ fp.open /\ cf = 0 THEN [fp EXCEPT !.open = FALSE] ELSE fp

\* What a successful flush + fsync of the handle makes durable.
SyncedAfter(handle, fs, ok) ==
    IF handle.open /\ ok /\ handle.file \in DOMAIN fs
    THEN [synced EXCEPT ![handle.file] = Len(fs[handle.file])]
    ELSE synced

\* write(): _, hour_bucket = now_ts()   (read before the lock is taken)
write_bucket(t) ==
    /\ Runnable(t)
    /\ pc[t] = "w_bucket"
    /\ bucket' = [bucket EXCEPT ![t] = now_ts]
    /\ goto(t, "w_lock")
    /\ UNCHANGED <<clock, nextId, faults, ev, cur_hour, fp, lock, pending,
                   files, synced, stop_event, hpc, shutClosed, lvars, evars>>

\* write(): with self.lock, then the rotation test and, when it fires, the close
\* of the current file, cur_hour = hour_bucket and _open_for_hour(hour_bucket).
\* cf: the close fails; of = 1: mkdir/open fails; of = 2: the fsync after open fails.
write_enter(t) ==
    /\ Runnable(t)
    /\ pc[t] = "w_lock"
    /\ LockFree
    /\ IF NeedsRotate(bucket[t])
       THEN \E cf \in {0, 1}, of \in {0, 1, 2} :
              LET cost == cf + (IF of = 0 THEN 0 ELSE 1)
                  tgt == OpenTarget(bucket[t])
                  flushed == Flushed(fp, cf = 0)
                  created == (tgt :> OpenedContent(flushed, tgt)) @@ flushed
                  closedSync == SyncedAfter(fp, flushed, cf = 0 /\ fp # NoFp)
              IN /\ faults + cost <= MaxFaults
                 /\ (cf = 1 => fp # NoFp /\ fp.open)
                 /\ faults' = faults + cost
                 /\ cur_hour' = bucket[t]
                 /\ pending' = <<>>
                 /\ IF of = 1
                    THEN /\ fp' = AfterClose(cf)
                         /\ files' = flushed
                         /\ synced' = closedSync
                         /\ lock' = NoThread
                         /\ write_raises(t)
                    ELSE /\ fp' = [file |-> tgt, open |-> TRUE]
                         /\ files' = created
                         /\ IF of = 2
                            THEN /\ synced' = closedSync
                                 /\ lock' = NoThread
                                 /\ write_raises(t)
                            ELSE /\ synced' = [closedSync EXCEPT ![tgt] = Len(created[tgt])]
                                 /\ lock' = t
                                 /\ step(t, "w_append")
       ELSE /\ lock' = t
            /\ step(t, "w_append")
            /\ UNCHANGED <<faults, cur_hour, fp, pending, files, synced>>
    /\ UNCHANGED <<clock, nextId, stop_event, hpc, shutClosed, lvars, evars>>

\* write(): self.fp.write(line + "\n"), first half: the text of the line enters
\* the handle's buffer.  A closed handle raises ValueError.
write_append(t) ==
    /\ Runnable(t)
    /\ pc[t] = "w_append"
    /\ IF fp.open
       THEN /\ pending' = Append(pending, Chunk(ev[t], 1))
            /\ lock' = lock
            /\ step(t, "w_flush")
       ELSE /\ pending' = pending
            /\ lock' = NoThread
            /\ write_raises(t)
    /\ UNCHANGED <<clock, nextId, faults, cur_hour, fp, files, synced,
                   stop_event, hpc, shutClosed, lvars, evars>>

\* write(): self.fp.write(line + "\n"), second half: the "\n" makes the
\* line-buffered handle hand the buffer to the OS (k = 2: that fails, the
\* exception leaves write() and nothing is appended); then
\* try: self.fp.flush(); os.fsync(self.fp.fileno()) except Exception: pass
\* (k = 1: it fails and is swallowed); the lock is released, write() returns.
write_flush(t) ==
    /\ Runnable(t)
    /\ pc[t] = "w_flush"
    /\ lock' = NoThread
    /\ pending' = <<>>
    /\ IF fp.open
       THEN \E k \in {0, 1, 2} :
              /\ faults + (IF k = 0 THEN 0 ELSE 1) <= MaxFaults
              /\ faults' = faults + (IF k = 0 THEN 0 ELSE 1)
              /\ IF k = 2
                 THEN /\ UNCHANGED <<files, synced>>
                      /\ write_raises(t)
                 ELSE /\ files' = [files EXCEPT ![fp.file] =
                                      (@ \o pending) \o <<Chunk(ev[t], 2)>>]
                      /\ synced' = SyncedAfter(fp, files', k = 0)
                      /\ write_returns(t)
       ELSE /\ UNCHANGED <<faults, files, synced>>
            /\ write_raises(t)
    /\ UNCHANGED <<clock, nextId, cur_hour, fp, stop_event, hpc,
                   shutClosed, lvars, evars>>

\* close(): with self.lock: if self.fp: try flush; fsync; close except pass;
\* self.fp = None.  cur_hour is left as it is.
close ==
    /\ LockFree
    /\ \E k \in {0, 1} :
         /\ faults + k <= MaxFaults
         /\ (k = 1 => fp # NoFp /\ fp.open)
         /\ faults' = faults + k
         /\ files' = Flushed(fp, k = 0)
         /\ synced' = SyncedAfter(fp, files', k = 0 /\ fp # NoFp)
    /\ fp' = NoFp
    /\ pending' = <<>>
    /\ UNCHANGED <<cur_hour, lock>>

\* The process ends (how = "exited": sys.exit; "died": uncaught exception in
\* main()): its threads, the writer object, its handle and the handle's buffer
\* are gone; what was handed to the OS stays in the files.
ProcessEnds(how) ==
    /\ proc' = how
    /\ pc' = [t \in Threads |-> "off"]
    /\ ev' = [t \in Threads |-> NoEvent]
    /\ bucket' = [t \in Threads |-> NoHour]
    /\ cur_hour' = NoHour
    /\ fp' = NoFp
    /\ lock' = NoThread
    /\ pending' = <<>>
    /\ stop_event' = FALSE
    /\ hpc' = "none"
    /\ shutClosed' = FALSE
    /\ UNCHANGED <<clock, nextId, faults, outcome, files, synced,
                   returned, lvars, evars>>

\* ------------------------------------------------------------ call sites
\* main(): snapshot(label="snapshot_start"), after the writer, the signal
\* handlers, the snapshot thread and the subscriptions are set up.
main_snapshot_start ==
    /\ pc["main"] = "m_start"
    /\ call_write("main", "snapshot_start")

\* main(): the exception of snapshot(label="snapshot_start") leaves main().
main_uncaught ==
    /\ proc = "running"
    /\ pc["main"] = "m_dead"
    /\ ProcessEnds("died")

\* periodic_snapshots(): the loop test, the sleep, the stop test after it and
\* snapshot(label="snapshot_periodic").
periodic_snapshots ==
    /\ pc["snap"] = "s_top"
    /\ ~stop_event
    /\ call_write("snap", "snapshot_periodic")

\* periodic_snapshots(): stop_event is set, the loop ends.
periodic_stop ==
    /\ Runnable("snap")
    /\ pc["snap"] = "s_top"
    /\ stop_event
    /\ goto("snap", "s_done")
    /\ UNCHANGED <<clock, nextId, faults, ev, bucket, cur_hour, fp,
                   lock, pending, files, synced, stop_event, hpc, shutClosed,
                   lvars, evars>>

\* topic_receive(): WRITER.write({"type": "rx", "ts": now_ts()[0], ...})
\* The library delivers packets while the interface is open; shutdown() closes
\* it right after stop_event.set(), a callback already running goes on.
topic_receive ==
    /\ pc["cb"] = "cb_idle"
    /\ ~stop_event
    /\ call_write("cb", "rx")

\* topic_receive(): the echo gates passed, do_send_echo and the tx_echo write.
topic_receive_echo ==
    /\ pc["cb"] = "cb_echo"
    /\ call_write("cb", "tx_echo")

\* topic_receive(): one of the echo gates returns.
topic_receive_return ==
    /\ Runnable("cb")
    /\ pc["cb"] = "cb_echo"
    /\ goto("cb", "cb_idle")
    /\ UNCHANGED <<clock, nextId, faults, ev, bucket, cur_hour, fp,
                   lock, pending, files, synced, stop_event, hpc, shutClosed,
                   lvars, evars>>

\* on_connection_established(): snapshot(label="snapshot_connect")
on_connection_established ==
    /\ pc["cb"] = "cb_idle"
    /\ ~stop_event
    /\ call_write("cb", "snapshot_connect")

\* The wall clock passes an hour boundary.
tick ==
    /\ proc = "running"
    /\ clock < MaxHour
    /\ clock' = clock + 1
    /\ UNCHANGED <<nextId, faults, proc, pc, ev, bucket, outcome,
                   cur_hour, fp, lock, pending, files, synced, stop_event,
                   hpc, returned, shutClosed, lvars, evars>>

\* ---------------------------------------------------------------- shutdown
\* SIGINT/SIGTERM: shutdown() starts on the main thread, on top of whatever the
\* main thread was doing: stop_event.set() and iface.close().
shutdown_signal ==
    /\ proc = "running"
    /\ hpc = "none"
    /\ pc["main"] # "m_dead"
    /\ hpc' = "close"
    /\ stop_event' = TRUE
    /\ UNCHANGED <<clock, nextId, faults, proc, pc, ev, bucket,
                   outcome, cur_hour, fp, lock, pending, files, synced,
                   returned, shutClosed, lvars, evars>>

\* shutdown(): WRITER.close() -- waits for the writer lock.
shutdown_close ==
    /\ proc = "running"
    /\ hpc = "close"
    /\ close
    /\ hpc' = "exit"
    /\ shutClosed' = TRUE
    /\ UNCHANGED <<clock, nextId, proc, pc, ev, bucket, outcome,
                   stop_event, returned, lvars, evars>>

\* shutdown(): sys.exit(0).  SystemExit unwinds the interrupted main thread;
\* inside main()'s try it runs finally: shutdown() once more.
shutdown_exit ==
    /\ proc = "running"
    /\ hpc = "exit"
    /\ IF pc["main"] = "m_loop"
       THEN /\ hpc' = "done"
            /\ pc' = [pc EXCEPT !["main"] = "m_fin"]
            /\ UNCHANGED <<clock, nextId, faults, proc, ev, bucket,
                           outcome, cur_hour, fp, lock, pending, files,
                           synced, stop_event, returned, shutClosed,
                           lvars, evars>>
       ELSE ProcessEnds("exited")

\* main(): finally: shutdown() -- stop_event.set(), iface.close(), WRITER.close()
main_finally_close ==
    /\ Runnable("main")
    /\ pc["main"] = "m_fin"
    /\ close
    /\ goto("main", "m_fin_exit")
    /\ UNCHANGED <<clock, nextId, ev, bucket, stop_event, hpc,
                   shutClosed, lvars, evars>>

\* main(): finally: shutdown() -- sys.exit(0), the process ends.
main_finally_exit ==
    /\ Runnable("main")
    /\ pc["main"] = "m_fin_exit"
    /\ ProcessEnds("exited")

\* The sniffer is started again on the same label: main() builds a new
\* HourlyNDJSONWriter; the files of the previous run are still there.
restart ==
    /\ proc \in {"exited", "died"}
    /\ nextId <= MaxEvents
    /\ proc' = "running"
    /\ pc' = [main |-> "m_start", snap |-> "s_top", cb |-> "cb_idle"]
    /\ outcome' = "none"
    /\ UNCHANGED <<clock, nextId, faults, ev, bucket, cur_hour, fp, lock,
                   pending, files, synced, stop_event, hpc, returned,
                   shutClosed, lvars, evars>>

\* ------------------------------------------------------------------- loader
\* JSON values, tagged so that values of different Python types can be told
\* apart: null, bool, number (n/d), string, list, object (dict).
JNull == [t |-> "null"]
JBool(b) == [t |-> "bool", b |-> b]
JNum(n) == [t |-> "num", n |-> n, d |-> 1]
JStr(x) == [t |-> "str", s |-> x]
JList(l) == [t |-> "list", l |-> l]
JObj(o) == [t |-> "obj", o |-> o]
EmptyDict == JObj(<<>>)

\* isinstance(v, dict): only a dict has .get
IsDict(v) == v.t = "obj"

\* dict.get(k): the value, or None when the key is missing
Get(v, k) == IF k \in DOMAIN v.o THEN v.o[k] ELSE JNull

\* Python truthiness of a decoded JSON value
Truthy(v) ==
    CASE v.t = "null" -> FALSE
      [] v.t = "bool" -> v.b
      [] v.t = "num" -> v.n # 0
      [] v.t = "str" -> v.s # ""
      [] v.t = "list" -> Len(v.l) > 0
      [] OTHER -> DOMAIN v.o # {}

\* Python's  x or default
Or(v, default) == IF Truthy(v) THEN v ELSE default

\* The strings of the model that Python's float()/int() parse as a number.
Numerals == ("12" :> 12) @@ ("-80" :> -80)

\* float(x) does not raise
Floatable(v) ==
    \/ v.t \in {"num", "bool"}
    \/ v.t = "str" /\ v.s \in DOMAIN Numerals

\* float(x), for a value float() accepts
Float(v) ==
    CASE v.t = "num" -> v
      [] v.t = "bool" -> JNum(IF v.b THEN 1 ELSE 0)
      [] OTHER -> JNum(Numerals[v.s])

MicroDegrees == 10000000

\* float(x) / 1e7
Scaled(v) == [Float(v) EXCEPT !.d = @ * MicroDegrees]

\* safe_float(x): None when x is None or float(x) raises
safe_float(v) == IF Floatable(v) THEN Float(v) ELSE JNull

\* safe_int(x): None when x is None or int(x) raises; int() truncates
safe_int(v) ==
    IF Floatable(v)
    THEN LET f == Float(v)
             q == IF f.n >= 0 THEN f.n \div f.d ELSE -((-f.n) \div f.d)
         IN JNum(q)
    ELSE JNull

\* str(x) of a decoded JSON value
Str(v) ==
    CASE v.t = "str" -> v.s
      [] v.t = "num" -> IF v.d = 1 THEN ToString(v.n) ELSE "<float>"
      [] v.t = "null" -> "None"
      [] v.t = "bool" -> IF v.b THEN "True" ELSE "False"
      [] OTHER -> "<repr>"

\* bool(x) as a JSON value
Bool(v) == JBool(Truthy(v))

\* The type tags of the model for which et.startswith("snapshot") holds.
SnapshotTags == {"snapshot", "snapshot_start", "snapshot_periodic", "snapshot_connect"}

\* app_name_from_portnum(portnum)
app_name_from_portnum(v) ==
    CASE v.t = "str" /\ v.s # "" -> v.s
      [] v.t \in {"num", "bool"} /\ Float(v).d = 1 ->
            LET n == Float(v).n
            IN CASE n = 1 -> "TEXT_MESSAGE_APP"
                 [] n = 3 -> "POSITION_APP"
                 [] n = 67 -> "TELEMETRY_APP"
                 [] OTHER -> "PORT_" \o ToString(n)
      [] OTHER -> "UNKNOWN"

\* norm_node_ids(pkt): one side (k = "fromId", alt = "from")
norm_node_id(pkt, k, alt) ==
    LET direct == Get(pkt, k)
        id == IF direct = JNull /\ alt \in DOMAIN pkt.o
              THEN JStr(Str(Get(pkt, alt)))
              ELSE direct
    IN IF id = JNull THEN JNull ELSE JStr(Str(id))

Raise == [st |-> "raise"]
Skip == [st |-> "skip"]

\* _extract_position(decoded): [st |-> "ok", pos |-> None or the position],
\* or Raise when float(lat) / float(lon) raises.
extract_position(decoded) ==
    LET pos == Or(Get(decoded, "position"), EmptyDict)
    IN IF ~IsDict(pos) THEN [st |-> "ok", pos |-> JNull]
       ELSE
       LET lat0 == Get(pos, "latitude")
           lon0 == Get(pos, "longitude")
           latI == Get(pos, "latitudeI")
           lonI == Get(pos, "longitudeI")
           tryI == (lat0 = JNull \/ lon0 = JNull) /\ latI # JNull /\ lonI # JNull
           lat == IF tryI /\ Floatable(latI) THEN Scaled(latI) ELSE lat0
           lon == IF tryI /\ Floatable(latI) /\ Floatable(lonI)
                  THEN Scaled(lonI) ELSE lon0
       IN IF lat = JNull \/ lon = JNull THEN [st |-> "ok", pos |-> JNull]
          ELSE IF ~Floatable(lat) \/ ~Floatable(lon) THEN Raise
          ELSE [st |-> "ok",
                pos |-> JObj(
                   (IF "satsInView" \in DOMAIN pos.o
                    THEN [satsInView |-> safe_int(Get(pos, "satsInView"))]
                    ELSE <<>>)
                   @@ (IF "altitude" \in DOMAIN pos.o
                       THEN [altitude |-> safe_float(Get(pos, "altitude"))]
                       ELSE <<>>)
                   @@ [lat |-> Float(lat), lon |-> Float(lon)])]

\* load_bundle: the msg dict built from an rx / tx_echo record, or Raise when
\* a .get lands on something that is not a dict or _extract_position raises.
normalize(evv, et) ==
    LET pkt == Or(Get(evv, "packet"), EmptyDict)
    IN IF ~IsDict(pkt) THEN Raise
       ELSE
       LET decoded == Or(Get(pkt, "decoded"), EmptyDict)
       IN IF ~IsDict(decoded) THEN Raise
          ELSE
          LET portnum == IF "portnum" \in DOMAIN decoded.o
                         THEN decoded.o["portnum"]
                         ELSE Get(decoded, "payloadVariant")
              p == extract_position(decoded)
          IN IF p.st = "raise" THEN Raise
             ELSE [st |-> "msg",
                   rec |-> [ts |-> Get(evv, "ts"),
                            etype |-> et.s,
                            from_id |-> norm_node_id(pkt, "fromId", "from"),
                            to_id |-> norm_node_id(pkt, "toId", "to"),
                            app |-> app_name_from_portnum(portnum),
                            text |-> Get(decoded, "text"),
                            channel |-> Get(pkt, "channel"),
                            rxRssi |-> safe_float(Get(pkt, "rxRssi")),
                            rxSnr |-> safe_float(Get(pkt, "rxSnr")),
                            hopLimit |-> safe_int(Get(pkt, "hopLimit")),
                            hopStart |-> safe_int(Get(pkt, "hopStart")),
                            relayNode |-> Get(pkt, "relayNode"),
                            priority |-> Get(pkt, "priority"),
                            id |-> Get(pkt, "id"),
                            is_encrypted |-> Bool(Or(Get(pkt, "encrypted"),
                                                     Get(pkt, "pkiEncrypted"))),
                            decoded_isPrivate |->
                                IF Get(decoded, "isPrivate") # JNull
                                THEN Bool(Get(decoded, "isPrivate")) ELSE JNull,
                            decoded_dm |->
                                IF Get(decoded, "dm") # JNull
                                THEN Bool(Get(decoded, "dm")) ELSE JNull,
                            telemetry |-> Or(Get(decoded, "telemetry"), EmptyDict),
                            position |-> p.pos]]

\* load_bundle: the body of  for line in fp  for one line.
\* line.k: "blank" (empty after strip), "text" (json.loads raises), "json".
process_line(line) ==
    IF line.k # "json" THEN Skip
    ELSE LET evv == line.v
         IN IF ~IsDict(evv) THEN Raise
            ELSE LET et == Get(evv, "type")
                 IN IF Truthy(et) /\ et.t # "str" THEN Raise
                    ELSE IF Truthy(et) /\ et.s \in SnapshotTags
                    THEN [st |-> "snapshot",
                          rec |-> [ts |-> Get(evv, "ts"),
                                   myInfo |-> Get(evv, "myInfo"),
                                   nodes |-> Get(evv, "nodes"),
                                   radioConfig |-> Get(evv, "radioConfig")]]
                    ELSE IF et.t = "str" /\ et.s \in {"rx", "tx_echo"}
                    THEN normalize(evv, et)
                    ELSE Skip

\* A bundle that starts from the lists of the bundle loaded before.
DataBundle_Shared(names) ==
    IF bundle.st = "ok" THEN [bundle.out EXCEPT !.files_loaded = names]
    ELSE [messages |-> <<>>, snapshots |-> <<>>, name_map |-> <<>>,
          my_node_id |-> JNull, files_loaded |-> names, app_set |-> {}]

\* DataBundle.__init__ with files_loaded set
DataBundle(names) ==
    [messages |-> <<>>, snapshots |-> <<>>, name_map |-> <<>>,
     my_node_id |-> JNull, files_loaded |-> names, app_set |-> {}]

\* load_bundle: the lines of one file from line i on; an exception that is not
\* json.loads' leaves the file (the outer  except Exception: continue).
RECURSIVE load_lines(_, _, _)
load_lines(lines, i, out) ==
    IF i > Len(lines) THEN out
    ELSE LET r == process_line(lines[i])
         IN CASE r.st = "raise" -> out
              [] r.st = "skip" -> load_lines(lines, i + 1, out)
              [] r.st = "snapshot" ->
                    load_lines(lines, i + 1,
                               [out EXCEPT !.snapshots = Append(@, r.rec)])
              [] OTHER ->
                    load_lines(lines, i + 1,
                               [out EXCEPT !.messages = Append(@, r.rec),
                                           !.app_set = @ \cup {r.rec.app}])

\* load_bundle: for f in chosen
RECURSIVE load_files(_, _, _)
load_files(chosen, j, out) ==
    IF j > Len(chosen) THEN out
    ELSE load_files(chosen, j + 1, load_lines(chosen[j].lines, 1, out))

\* A name map in which the names a node already has are kept.
name_entry_FirstWins(nm, user) ==
    IF ~IsDict(user) THEN Raise
    ELSE LET uid == Get(user, "id")
         IN IF ~Truthy(uid) THEN [st |-> "ok", nm |-> nm]
            ELSE LET key == Str(uid)
                     old == IF key \in DOMAIN nm THEN nm[key] ELSE <<>>
                     sh == IF Truthy(Get(user, "shortName"))
                           THEN [short |-> Str(Get(user, "shortName"))] ELSE <<>>
                     lg == IF Truthy(Get(user, "longName"))
                           THEN [long |-> Str(Get(user, "longName"))] ELSE <<>>
                 IN [st |-> "ok", nm |-> (key :> (old @@ sh @@ lg)) @@ nm]

\* One user dict applied to the name map: setdefault(str(id), {}) and the
\* short / long names that are truthy.  Raise when user is not a dict.
name_entry(nm, user) ==
    IF ~IsDict(user) THEN Raise
    ELSE LET uid == Get(user, "id")
         IN IF ~Truthy(uid) THEN [st |-> "ok", nm |-> nm]
            ELSE LET key == Str(uid)
                     old == IF key \in DOMAIN nm THEN nm[key] ELSE <<>>
                     sh == IF Truthy(Get(user, "shortName"))
                           THEN [short |-> Str(Get(user, "shortName"))] ELSE <<>>
                     lg == IF Truthy(Get(user, "longName"))
                           THEN [long |-> Str(Get(user, "longName"))] ELSE <<>>
                 IN [st |-> "ok", nm |-> (key :> (sh @@ lg @@ old)) @@ nm]

\* harvest_name_map_from_snapshots: the  for nd in nodes.values()  loop over
\* the keys not yet visited.
RECURSIVE name_nodes(_, _, _)
name_nodes(nm, nodes, keys) ==
    IF keys = {} THEN [st |-> "ok", nm |-> nm]
    ELSE LET k == CHOOSE x \in keys : TRUE
             nd == Or(nodes.o[k], EmptyDict)
         IN IF ~IsDict(nd) THEN Raise
            ELSE LET r == name_entry(nm, Or(Get(nd, "user"), EmptyDict))
                 IN IF r.st = "raise" THEN Raise
                    ELSE name_nodes(r.nm, nodes, keys \ {k})

\* harvest_name_map_from_snapshots(snapshots), from snapshot i on
RECURSIVE harvest_name_map_from_snapshots(_, _, _)
harvest_name_map_from_snapshots(snapshots, i, nm) ==
    IF i > Len(snapshots) THEN [st |-> "ok", nm |-> nm]
    ELSE LET mi == Or(snapshots[i].myInfo, EmptyDict)
         IN IF ~IsDict(mi) THEN Raise
            ELSE LET r == name_entry(nm, Or(Get(mi, "user"), EmptyDict))
                     nodes == snapshots[i].nodes
                 IN IF r.st = "raise" THEN Raise
                    ELSE LET r2 == IF IsDict(nodes)
                                   THEN name_nodes(r.nm, nodes, DOMAIN nodes.o)
                                   ELSE r
                         IN IF r2.st = "raise" THEN Raise
                            ELSE harvest_name_map_from_snapshots(snapshots, i + 1, r2.nm)

\* detect_my_node_from_snapshots(snapshots), from snapshot i on
RECURSIVE detect_my_node_from_snapshots(_, _)
detect_my_node_from_snapshots(snapshots, i) ==
    IF i > Len(snapshots) THEN [st |-> "ok", id |-> JNull]
    ELSE LET mi == Or(snapshots[i].myInfo, EmptyDict)
         IN IF ~IsDict(mi) THEN Raise
            ELSE LET user == Or(Get(mi, "user"), EmptyDict)
                 IN IF ~IsDict(user) THEN Raise
                    ELSE IF Truthy(Get(user, "id"))
                    THEN [st |-> "ok", id |-> JStr(Str(Get(user, "id")))]
                    ELSE detect_my_node_from_snapshots(snapshots, i + 1)

MAX_LOOKBACK_HOURS == 168

\* max(lo, min(x, hi))
Clamp(x, lo, hi) == IF x < lo THEN lo ELSE IF x > hi THEN hi ELSE x

\* The file names of the directory, sorted: disk is kept in name order.
FileIndexes(d) == 1..Len(d)

\* load_bundle, mode "lastfile": max(files, key=os.path.getmtime), the first
\* of the sorted names among those with the greatest mtime.
LastFile(d) ==
    CHOOSE i \in FileIndexes(d) :
        /\ \A j \in FileIndexes(d) : d[j].mtime <= d[i].mtime
        /\ \A j \in FileIndexes(d) : d[j].mtime = d[i].mtime => i <= j

\* A window whose hours are taken as given, without the clamp.
InWindow_Unclamped(d, hours, now) ==
    {i \in FileIndexes(d) : d[i].bucket # NoHour /\ d[i].bucket >= now - hours}

\* load_bundle, mode "hours": the files whose parsed bucket is >= the cutoff
\* (now - hours, cut to the hour), in name order.
InWindow(d, hours, now) ==
    LET cutoff == now - Clamp(hours, 1, MAX_LOOKBACK_HOURS)
    IN {i \in FileIndexes(d) : d[i].bucket # NoHour /\ d[i].bucket >= cutoff}

\* The sub-sequence of d at the indexes of picked, in order.
RECURSIVE Pick(_, _, _)
Pick(d, picked, i) ==
    IF i > Len(d) THEN <<>>
    ELSE (IF i \in picked THEN <<d[i]>> ELSE <<>>) \o Pick(d, picked, i + 1)

\* A selection without the last-file fallback.
Chosen_NoFallback(d, req) ==
    IF req.mode = "lastfile" THEN <<d[LastFile(d)]>>
    ELSE Pick(d, InWindow(d, req.hours, req.now), 1)

\* load_bundle: chosen
Chosen(d, req) ==
    IF req.mode = "lastfile" THEN <<d[LastFile(d)]>>
    ELSE LET w == InWindow(d, req.hours, req.now)
         IN IF w = {} THEN <<d[Len(d)]>> ELSE Pick(d, w, 1)

\* load_bundle(log_root, label, mode, hours) at time now:
\* [st |-> "ok", out |-> the DataBundle], or Raise when the exception of
\* harvest_name_map_from_snapshots / detect_my_node_from_snapshots leaves it.
load_bundle(d, req) ==
    IF Len(d) = 0 THEN [st |-> "ok", out |-> DataBundle(<<>>)]
    ELSE LET chosen == Chosen(d, req)
             names == [j \in 1..Len(chosen) |-> chosen[j].bucket]
             out == load_files(chosen, 1, DataBundle(names))
             nm == harvest_name_map_from_snapshots(out.snapshots, 1, <<>>)
             me == detect_my_node_from_snapshots(out.snapshots, 1)
         IN IF nm.st = "raise" \/ me.st = "raise" THEN Raise
            ELSE [st |-> "ok",
                  out |-> [out EXCEPT !.name_map = nm.nm, !.my_node_id = me.id]]

\* ------------------------------------------------------------------ queries
\* The ISO-8601 strings of the model that datetime.fromisoformat accepts, with
\* the instant each denotes, in minutes of UTC.
Instants ==
    ("2025-01-01T00:05:00+00:00" :> 5) @@ ("2025-01-01T02:10:00+02:00" :> 10)
        @@ ("2025-01-01T00:20:00+00:00" :> 20)

\* A datetime value
At(n) == [t |-> "time", at |-> n]

\* to_utc(dt_str): None when dt_str is falsy or fromisoformat raises
to_utc(v) ==
    IF v.t = "str" /\ v.s \in DOMAIN Instants THEN At(Instants[v.s]) ELSE JNull

\* dt.isoformat() of a UTC datetime of the model
IsoText ==
    (5 :> "2025-01-01T00:05:00+00:00") @@ (10 :> "2025-01-01T00:10:00+00:00")
        @@ (20 :> "2025-01-01T00:20:00+00:00")

\* iso(dt): dt.isoformat() if dt else None
iso(dt) == IF dt = JNull THEN JNull ELSE JStr(IsoText[dt.at])

\* Python's order on the strings the overview sorts by: "" first, then the
\* ISO texts of the model in lexicographic order.
StrRank ==
    ("" :> 0) @@ ("2025-01-01T00:05:00+00:00" :> 1)
        @@ ("2025-01-01T00:10:00+00:00" :> 2)
        @@ ("2025-01-01T00:20:00+00:00" :> 3)

\* a <= b on floats
NumLeq(a, b) == a.n * b.d <= b.n * a.d

\* A sort that leaves the list in the order given.
SortDesc_AsGiven(s, i, out) == [j \in 1..Len(s) |-> s[j][2]]

\* list.sort(key = ..., reverse = True) over a list given as <<key, item>>
\* pairs: descending by key, stable (equal keys keep their order): each pair
\* goes behind every pair whose key is not smaller.
RECURSIVE SortDesc(_, _, _)
SortDesc(s, i, out) ==
    IF i > Len(s) THEN [j \in 1..Len(out) |-> out[j][2]]
    ELSE LET x == s[i]
             n == Cardinality({j \in 1..Len(out) : x[1] <= out[j][1]})
         IN SortDesc(s, i + 1,
                     SubSeq(out, 1, n) \o <<x>> \o SubSeq(out, n + 1, Len(out)))

\* sorted(data), ascending, for the median
RECURSIVE SortAsc(_, _, _)
SortAsc(s, i, out) ==
    IF i > Len(s) THEN out
    ELSE LET x == s[i]
             n == Cardinality({j \in 1..Len(out) : NumLeq(out[j], x)})
         IN SortAsc(s, i + 1,
                    SubSeq(out, 1, n) \o <<x>> \o SubSeq(out, n + 1, Len(out)))

\* (a + b) / 2
Mean2(a, b) ==
    LET n == a.n * b.d + b.n * a.d
        d == 2 * a.d * b.d
    IN IF n % d = 0 THEN JNum(n \div d) ELSE [t |-> "num", n |-> n, d |-> d]

\* A median that takes the upper middle value of an even-sized sample.
median_UpperMiddle(vals) ==
    IF Len(vals) = 0 THEN JNull
    ELSE SortAsc(vals, 1, <<>>)[Len(vals) \div 2 + 1]

\* median(vals) if vals else None
median(vals) ==
    IF Len(vals) = 0 THEN JNull
    ELSE LET data == SortAsc(vals, 1, <<>>)
             i == Len(data) \div 2
         IN IF Len(data) % 2 = 1 THEN data[i + 1]
            ELSE Mean2(data[i], data[i + 1])

\* Filter steps that let encrypted messages through.
filter_msgs_KeepEncrypted(msgs, include_encrypted, apps_filter) ==
    SelectSeq(msgs, LAMBDA m : apps_filter = {} \/ m.app \in apps_filter)

\* The filter steps shared by the three queries: drop encrypted messages
\* unless include_encrypted, keep the apps of a non-empty apps_filter.
filter_msgs(msgs, include_encrypted, apps_filter) ==
    SelectSeq(msgs, LAMBDA m :
        /\ (include_encrypted \/ ~Truthy(m.is_encrypted))
        /\ (apps_filter = {} \/ m.app \in apps_filter))

\* {"ts": iso(ts), **metrics}
with_ts(m, metrics) == JObj(metrics.o @@ [ts |-> iso(to_utc(m.ts))])

\* "key" in tel and isinstance(tel[key], dict), for a telemetry dict
has_metrics(m, key) ==
    /\ IsDict(m.telemetry)
    /\ key \in DOMAIN m.telemetry.o
    /\ IsDict(m.telemetry.o[key])

\* latest_by_node_telemetry(messages): the dict of one kind of metrics
\* (key = "deviceMetrics" / "environmentMetrics"), from message i on.
RECURSIVE latest_by_node_telemetry(_, _, _, _)
latest_by_node_telemetry(messages, key, i, last) ==
    IF i > Len(messages) THEN last
    ELSE LET m == messages[i]
         IN IF Truthy(m.from_id) /\ Truthy(m.telemetry) /\ has_metrics(m, key)
            THEN latest_by_node_telemetry(messages, key, i + 1,
                     (m.from_id.s :> with_ts(m, m.telemetry.o[key])) @@ last)
            ELSE latest_by_node_telemetry(messages, key, i + 1, last)

\* build_overview: by_node.setdefault(nid, {...}), the record of a new node
node_rec(nid) ==
    [node_id |-> nid, first_heard |-> JNull, last_heard |-> JNull,
     total_msgs |-> 0, rssi_vals |-> <<>>, snr_vals |-> <<>>,
     app_counts |-> <<>>]

\* A grouping loop that takes the timestamp of the message it handles last as
\* the time the node was last heard.
heard_LastWins(rec, m) ==
    LET ts == to_utc(m.ts)
        app == IF m.app = "" THEN "UNKNOWN" ELSE m.app
        seen == IF app \in DOMAIN rec.app_counts THEN rec.app_counts[app] ELSE 0
    IN [node_id |-> rec.node_id,
        total_msgs |-> rec.total_msgs + 1,
        first_heard |->
            IF ts # JNull /\ (rec.first_heard = JNull \/ ts.at < rec.first_heard.at)
            THEN ts ELSE rec.first_heard,
        last_heard |-> IF ts # JNull THEN ts ELSE rec.last_heard,
        rssi_vals |-> IF m.rxRssi # JNull THEN Append(rec.rssi_vals, m.rxRssi)
                      ELSE rec.rssi_vals,
        snr_vals |-> IF m.rxSnr # JNull THEN Append(rec.snr_vals, m.rxSnr)
                     ELSE rec.snr_vals,
        app_counts |-> (app :> seen + 1) @@ rec.app_counts]

\* build_overview: the body of  for m in msgs  applied to the node's record
heard(rec, m) ==
    LET ts == to_utc(m.ts)
        app == IF m.app = "" THEN "UNKNOWN" ELSE m.app
        seen == IF app \in DOMAIN rec.app_counts THEN rec.app_counts[app] ELSE 0
    IN [node_id |-> rec.node_id,
        total_msgs |-> rec.total_msgs + 1,
        first_heard |->
            IF ts # JNull /\ (rec.first_heard = JNull \/ ts.at < rec.first_heard.at)
            THEN ts ELSE rec.first_heard,
        last_heard |->
            IF ts # JNull /\ (rec.last_heard = JNull \/ ts.at > rec.last_heard.at)
            THEN ts ELSE rec.last_heard,
        rssi_vals |-> IF m.rxRssi # JNull THEN Append(rec.rssi_vals, m.rxRssi)
                      ELSE rec.rssi_vals,
        snr_vals |-> IF m.rxSnr # JNull THEN Append(rec.snr_vals, m.rxSnr)
                     ELSE rec.snr_vals,
        app_counts |-> (app :> seen + 1) @@ rec.app_counts]

\* build_overview: by_node after the grouping loop, from message i on; the
\* nodes are kept in the dict's order (first message of each node).
RECURSIVE group_by_node(_, _, _)
group_by_node(msgs, i, by) ==
    IF i > Len(msgs) THEN by
    ELSE LET m == msgs[i]
         IN IF ~Truthy(m.from_id) THEN group_by_node(msgs, i + 1, by)
            ELSE LET nid == m.from_id.s
                     at == {j \in 1..Len(by) : by[j].node_id = nid}
                 IN IF at = {}
                    THEN group_by_node(msgs, i + 1,
                                       Append(by, heard(node_rec(nid), m)))
                    ELSE LET j == CHOOSE x \in at : TRUE
                         IN group_by_node(msgs, i + 1,
                                          [by EXCEPT ![j] = heard(by[j], m)])

\* nameinfo.get("short") or nameinfo.get("long") or nid
display_name(name_map, nid) ==
    LET info == IF nid \in DOMAIN name_map THEN name_map[nid] ELSE <<>>
    IN IF "short" \in DOMAIN info THEN info["short"]
       ELSE IF "long" \in DOMAIN info THEN info["long"]
       ELSE nid

\* d.get(nid)
lookup(d, nid) == IF nid \in DOMAIN d THEN d[nid] ELSE JNull

\* Telemetry taken from the messages that passed the filters.
telemetry_source_Filtered(b, msgs) == msgs

\* build_overview: the list latest_by_node_telemetry is called on, where msgs
\* is the filtered list
telemetry_source(b, msgs) == b.messages

\* build_overview(bundle, include_encrypted, apps_filter); apps_filter is the
\* set of the list's names, {} for None or an empty list.
build_overview(b, include_encrypted, apps_filter) ==
    LET msgs == filter_msgs(b.messages, include_encrypted, apps_filter)
        by_node == group_by_node(msgs, 1, <<>>)
        all == telemetry_source(b, msgs)
        dev_last == latest_by_node_telemetry(all, "deviceMetrics", 1, <<>>)
        env_last == latest_by_node_telemetry(all, "environmentMetrics", 1, <<>>)
        rows == [j \in 1..Len(by_node) |->
                    LET rec == by_node[j]
                    IN [node_id |-> rec.node_id,
                        name |-> display_name(b.name_map, rec.node_id),
                        first_heard |-> iso(rec.first_heard),
                        last_heard |-> iso(rec.last_heard),
                        total_msgs |-> rec.total_msgs,
                        median_rssi |-> median(rec.rssi_vals),
                        median_snr |-> median(rec.snr_vals),
                        app_counts |-> rec.app_counts,
                        device |-> lookup(dev_last, rec.node_id),
                        environment |-> lookup(env_last, rec.node_id)]]
        keyed == [j \in 1..Len(rows) |->
                    <<StrRank[IF rows[j].last_heard = JNull THEN ""
                              ELSE rows[j].last_heard.s], rows[j]>>]
    IN [files_loaded |-> b.files_loaded,
        my_node_id |-> b.my_node_id,
        apps_available |-> b.app_set,
        nodes |-> SortDesc(keyed, 1, <<>>)]

\* A series that lists its points from the last message to the first.
RECURSIVE series_Reversed(_, _, _)
series_Reversed(msgs, key, i) ==
    IF i > Len(msgs) THEN <<>>
    ELSE series_Reversed(msgs, key, i + 1)
             \o (IF has_metrics(msgs[i], key)
                 THEN <<with_ts(msgs[i], msgs[i].telemetry.o[key])>> ELSE <<>>)

\* build_node_detail: dev_series / env_series, the points of the messages
\* from message i on that carry metrics of the kind key
RECURSIVE series(_, _, _)
series(msgs, key, i) ==
    IF i > Len(msgs) THEN <<>>
    ELSE (IF has_metrics(msgs[i], key)
          THEN <<with_ts(msgs[i], msgs[i].telemetry.o[key])>> ELSE <<>>)
             \o series(msgs, key, i + 1)

\* build_node_detail: pos_series
RECURSIVE pos_series(_, _)
pos_series(msgs, i) ==
    IF i > Len(msgs) THEN <<>>
    ELSE LET pos == msgs[i].position
         IN (IF IsDict(pos) /\ Get(pos, "lat") # JNull /\ Get(pos, "lon") # JNull
             THEN <<[ts |-> iso(to_utc(msgs[i].ts)), lat |-> Get(pos, "lat"),
                     lon |-> Get(pos, "lon"), altitude |-> Get(pos, "altitude")]>>
             ELSE <<>>) \o pos_series(msgs, i + 1)

\* The values of field f of the messages that are not None
RECURSIVE samples(_, _, _)
samples(msgs, f, i) ==
    IF i > Len(msgs) THEN <<>>
    ELSE (IF msgs[i][f] # JNull THEN <<msgs[i][f]>> ELSE <<>>)
             \o samples(msgs, f, i + 1)

\* build_node_detail(bundle, node_id, include_encrypted, apps_filter)
build_node_detail(b, node_id, include_encrypted, apps_filter) ==
    LET msgs == SelectSeq(filter_msgs(b.messages, include_encrypted, apps_filter),
                          LAMBDA m : m.from_id = JStr(node_id))
        ts_list == {to_utc(msgs[i].ts).at :
                        i \in {j \in 1..Len(msgs) : to_utc(msgs[j].ts) # JNull}}
    IN [node_id |-> node_id,
        name |-> display_name(b.name_map, node_id),
        first_heard |-> IF ts_list = {} THEN JNull
                        ELSE iso(At(CHOOSE x \in ts_list : \A y \in ts_list : x <= y)),
        last_heard |-> IF ts_list = {} THEN JNull
                       ELSE iso(At(CHOOSE x \in ts_list : \A y \in ts_list : x >= y)),
        total_msgs |-> Len(msgs),
        median_rssi |-> median(samples(msgs, "rxRssi", 1)),
        median_snr |-> median(samples(msgs, "rxSnr", 1)),
        telemetry_device |-> series(msgs, "deviceMetrics", 1),
        telemetry_env |-> series(msgs, "environmentMetrics", 1),
        radio_quality |-> [i \in 1..Len(msgs) |->
                              [ts |-> iso(to_utc(msgs[i].ts)),
                               rxRssi |-> msgs[i].rxRssi, rxSnr |-> msgs[i].rxSnr]],
        positions |-> pos_series(msgs, 1)]

MAX_MESSAGES_RETURN == 5000

\* str.upper() on the node ids of the model
Upper ==
    ("!aaaa" :> "!AAAA") @@ ("!bbbb" :> "!BBBB") @@ ("!cccc" :> "!CCCC")
        @@ ("!BBBB" :> "!BBBB") @@ ("7" :> "7") @@ ("9" :> "9")
        @@ ("^all" :> "^ALL")

\* str.lower() on the texts and search words of the model
Lower ==
    ("hi" :> "hi") @@ ("Hi all" :> "hi all")
        @@ ("ECHO BACK: hi" :> "echo back: hi") @@ ("All" :> "all")

\* s in t, over the lowered search words and texts of the model
Substring(s, t) == <<s, t>> \in {<<"all", "hi all">>}

\* infer_is_dm comparing the ids as they are written
infer_is_dm_CaseSensitive(decoded_private, decoded_dm, to_id, my_node_id) ==
    IF decoded_private = JBool(TRUE) \/ decoded_dm = JBool(TRUE) THEN TRUE
    ELSE IF Truthy(my_node_id) /\ Truthy(to_id)
    THEN to_id.s = my_node_id.s
    ELSE FALSE

\* A classification by the packet's flags alone.
infer_is_dm_FlagsOnly(decoded_private, decoded_dm, to_id, my_node_id) ==
    decoded_private = JBool(TRUE) \/ decoded_dm = JBool(TRUE)

\* build_messages.infer_is_dm
infer_is_dm(decoded_private, decoded_dm, to_id, my_node_id) ==
    IF decoded_private = JBool(TRUE) \/ decoded_dm = JBool(TRUE) THEN TRUE
    ELSE IF Truthy(my_node_id) /\ Truthy(to_id)
    THEN Upper[to_id.s] = Upper[my_node_id.s]
    ELSE FALSE

\* build_messages: no filter step has replaced msgs by a new list, so that
\* msgs still is bundle.messages itself when it is sorted.  The ids and the
\* search word are "" when not given.
sorts_in_place(include_encrypted, apps_filter, from_id, to_id, dm_only, text_contains) ==
    /\ include_encrypted
    /\ apps_filter = {}
    /\ from_id = ""
    /\ to_id = ""
    /\ ~dm_only
    /\ text_contains = ""

\* the filter steps with a text step that keeps a message without text
select_messages_TextLoose(messages, include_encrypted, apps_filter, my_node_id, from_id, to_id, dm_only, text_contains) ==
    SelectSeq(filter_msgs(messages, include_encrypted, apps_filter), LAMBDA m :
        /\ (from_id = "" \/ m.from_id = JStr(from_id))
        /\ (to_id = "" \/ m.to_id = JStr(to_id))
        /\ (~dm_only \/ infer_is_dm(m.decoded_isPrivate, m.decoded_dm,
                                    m.to_id, my_node_id))
        /\ (text_contains = ""
              \/ m.text.t # "str"
              \/ Substring(Lower[text_contains], Lower[m.text.s])))

\* build_messages: msgs after the filter steps
select_messages(messages, include_encrypted, apps_filter, my_node_id, from_id, to_id, dm_only, text_contains) ==
    SelectSeq(filter_msgs(messages, include_encrypted, apps_filter), LAMBDA m :
        /\ (from_id = "" \/ m.from_id = JStr(from_id))
        /\ (to_id = "" \/ m.to_id = JStr(to_id))
        /\ (~dm_only \/ infer_is_dm(m.decoded_isPrivate, m.decoded_dm,
                                    m.to_id, my_node_id))
        /\ (text_contains = ""
              \/ (m.text.t = "str"
                    /\ Substring(Lower[text_contains], Lower[m.text.s]))))

\* a sort by the timestamps as texts instead of the instants they denote
newest_first_ByText(msgs) ==
    SortDesc([j \in 1..Len(msgs) |->
                <<CASE msgs[j].ts = JStr("2025-01-01T00:05:00+00:00") -> 1
                    [] msgs[j].ts = JStr("2025-01-01T00:20:00+00:00") -> 2
                    [] msgs[j].ts = JStr("2025-01-01T02:10:00+02:00") -> 3
                    [] OTHER -> -1,
                  msgs[j]>>],
             1, <<>>)

\* msgs.sort(key = to_utc(ts) or the epoch, reverse = True)
newest_first(msgs) ==
    SortDesc([j \in 1..Len(msgs) |->
                <<IF to_utc(msgs[j].ts) = JNull THEN -1 ELSE to_utc(msgs[j].ts).at,
                  msgs[j]>>],
             1, <<>>)

\* build_messages.id_to_name
id_to_name(name_map, nid) ==
    IF nid.t # "str" THEN "" ELSE display_name(name_map, nid.s)

\* build_messages: one row
message_row(b, m, my_node_id) ==
    [ts |-> m.ts,
     from_id |-> m.from_id,
     from_name |-> id_to_name(b.name_map, m.from_id),
     to_id |-> m.to_id,
     to_name |-> id_to_name(b.name_map, m.to_id),
     app |-> m.app,
     is_dm |-> IF m.decoded_isPrivate = JBool(TRUE) \/ m.decoded_dm = JBool(TRUE)
               THEN JBool(TRUE)
               ELSE IF ~Truthy(my_node_id) THEN my_node_id
               ELSE IF m.to_id.t # "str" THEN JBool(FALSE)
               ELSE JBool(Upper[m.to_id.s] = Upper[my_node_id.s]),
     channel |-> m.channel,
     text |-> m.text,
     rxRssi |-> m.rxRssi,
     rxSnr |-> m.rxSnr,
     hopLimit |-> m.hopLimit,
     relayNode |-> m.relayNode,
     id |-> m.id]

\* the slice without the upper clamp: msgs[:max(1, limit)]
page_size_NoCap(limit, n) ==
    LET k == IF limit < 1 THEN 1 ELSE limit
    IN IF k < n THEN k ELSE n

\* len(msgs[:max(1, min(limit, MAX_MESSAGES_RETURN))]) for a list of n items
page_size(limit, n) ==
    LET k == Clamp(limit, 1, MAX_MESSAGES_RETURN)
    IN IF k < n THEN k ELSE n

\* build_messages(bundle, ...): [rows |-> the "messages" of the response,
\* messages |-> bundle.messages when the call returns]
build_messages(b, include_encrypted, apps_filter, my_node_id, from_id, to_id, dm_only, text_contains, limit) ==
    LET msgs == newest_first(
                    select_messages(b.messages, include_encrypted, apps_filter,
                                    my_node_id, from_id, to_id, dm_only,
                                    text_contains))
        page == SubSeq(msgs, 1, page_size(limit, Len(msgs)))
    IN [rows |-> [j \in 1..Len(page) |-> message_row(b, page[j], my_node_id)],
        messages |-> IF sorts_in_place(include_encrypted, apps_filter, from_id,
                                       to_id, dm_only, text_contains)
                     THEN msgs ELSE b.messages]

\* ------------------------------------------------- loader inputs (bounded)
MaxLines == 2

T1 == JStr("2025-01-01T00:05:00+00:00")
T2 == JStr("2025-01-01T00:20:00+00:00")
T3 == JStr("2025-01-01T02:10:00+02:00")

\* an rx record as topic_receive writes it: a text message
RxText ==
    JObj([type |-> JStr("rx"), ts |-> T1,
          packet |-> JObj([fromId |-> JStr("!aaaa"), toId |-> JStr("!bbbb"),
                           decoded |-> JObj([portnum |-> JStr("TEXT_MESSAGE_APP"),
                                             text |-> JStr("hi")]),
                           rxRssi |-> JNum(-80), rxSnr |-> JNum(5)])])

\* an rx record of a text message that the packet itself flags as private
RxPrivate ==
    JObj([type |-> JStr("rx"), ts |-> T1,
          packet |-> JObj([fromId |-> JStr("!cccc"), toId |-> JStr("!aaaa"),
                           decoded |-> JObj([portnum |-> JStr("TEXT_MESSAGE_APP"),
                                             text |-> JStr("hi"),
                                             isPrivate |-> JBool(TRUE)])])])

\* an rx record with numeric node ids and an integer micro-degree position
RxPosition ==
    JObj([type |-> JStr("rx"), ts |-> T2,
          packet |-> JObj([from |-> JNum(7), to |-> JNum(9),
                           decoded |-> JObj([portnum |-> JNum(3),
                                             position |-> JObj([latitudeI |-> JNum(377749000),
                                                                longitudeI |-> JNum(-1224194000)])]),
                           rxRssi |-> JNum(-90)])])

\* a tx_echo record as topic_receive writes it
TxEcho ==
    JObj([type |-> JStr("tx_echo"), ts |-> T2, dest |-> JStr("!aaaa"),
          text |-> JStr("ECHO BACK: hi"), portnum |-> JStr("TEXT_MESSAGE_APP")])

\* a snapshot record as snapshot() writes it
Snapshot ==
    JObj([type |-> JStr("snapshot_start"), ts |-> T1,
          myInfo |-> JObj([user |-> JObj([id |-> JStr("!bbbb"),
                                          shortName |-> JStr("ME")])]),
          nodes |-> JObj([n1 |-> JObj([user |-> JObj([id |-> JStr("!aaaa"),
                                                      longName |-> JStr("Alpha")])])]),
          radioConfig |-> JNull])

\* a later snapshot: another local radio, one node named again with another
\* field, one node renamed
SnapshotLater ==
    JObj([type |-> JStr("snapshot_periodic"), ts |-> T2,
          myInfo |-> JObj([user |-> JObj([id |-> JStr("!cccc"),
                                          longName |-> JStr("Base")])]),
          nodes |-> JObj([n1 |-> JObj([user |-> JObj([id |-> JStr("!aaaa"),
                                                      shortName |-> JStr("A2")])]),
                          n2 |-> JObj([user |-> JObj([id |-> JStr("!bbbb"),
                                                      shortName |-> JStr("B2")])])]),
          radioConfig |-> JNull])

\* an rx record that is encrypted (PKI) and still carries a decoded text
RxEncrypted ==
    JObj([type |-> JStr("rx"), ts |-> T2,
          packet |-> JObj([fromId |-> JStr("!aaaa"), toId |-> JStr("!bbbb"),
                           pkiEncrypted |-> JBool(TRUE),
                           decoded |-> JObj([portnum |-> JStr("TEXT_MESSAGE_APP"),
                                             text |-> JStr("Hi all")]),
                           rxRssi |-> JNum(-90)])])

\* an rx record with device metrics; its ts carries a UTC offset
RxDevice ==
    JObj([type |-> JStr("rx"), ts |-> T3,
          packet |-> JObj([fromId |-> JStr("!aaaa"),
                           decoded |-> JObj([portnum |-> JStr("TELEMETRY_APP"),
                                             telemetry |-> JObj([deviceMetrics |->
                                                 JObj([batteryLevel |-> JNum(90)])])]),
                           rxRssi |-> JNum(-70), rxSnr |-> JNum(7)])])

\* an encrypted rx record with later device metrics and no signal values
RxDeviceEncrypted ==
    JObj([type |-> JStr("rx"), ts |-> T2,
          packet |-> JObj([fromId |-> JStr("!aaaa"), encrypted |-> JBool(TRUE),
                           decoded |-> JObj([portnum |-> JStr("TELEMETRY_APP"),
                                             telemetry |-> JObj([deviceMetrics |->
                                                 JObj([batteryLevel |-> JNum(50)])])])])])

\* an rx record with environment metrics and a ts that is no ISO time
RxEnvironment ==
    JObj([type |-> JStr("rx"), ts |-> JStr("yesterday"),
          packet |-> JObj([from |-> JNum(7),
                           decoded |-> JObj([portnum |-> JStr("TELEMETRY_APP"),
                                             telemetry |-> JObj([environmentMetrics |->
                                                 JObj([temperature |-> JNum(21)])])])])])

\* records with a missing field
NoType == JObj([ts |-> T1])
RxNoPacket == JObj([type |-> JStr("rx"), ts |-> T1])

\* records with a wrongly-typed field
TypeNumber == JObj([type |-> JNum(5), ts |-> T1])
PacketString == JObj([type |-> JStr("rx"), ts |-> T1, packet |-> JStr("oops")])
DecodedList ==
    JObj([type |-> JStr("rx"), ts |-> T1,
          packet |-> JObj([fromId |-> JStr("!aaaa"),
                           decoded |-> JList(<<JNum(1)>>)])])
LatitudeString ==
    JObj([type |-> JStr("rx"), ts |-> T1,
          packet |-> JObj([fromId |-> JStr("!aaaa"),
                           decoded |-> JObj([portnum |-> JStr("POSITION_APP"),
                                             position |-> JObj([latitude |-> JStr("north"),
                                                                longitude |-> JNum(3)])])])])
MyInfoString ==
    JObj([type |-> JStr("snapshot"), ts |-> T1, myInfo |-> JStr("x")])

Json(v) == [k |-> "json", v |-> v]

\* The lines a log file of the model may hold: blank, not JSON, JSON that is
\* not an object, well-formed records, and records with a missing or
\* wrongly-typed field.
BlankLine == [k |-> "blank"]
TornLine == [k |-> "text"]
NonObjectLines == {Json(JList(<<JNum(1)>>)), Json(JNull)}
RecordLines ==
    {Json(RxText), Json(RxPosition), Json(TxEcho), Json(Snapshot),
     Json(SnapshotLater)}
MissingFieldLines == {Json(NoType), Json(RxNoPacket)}
WrongTypeLines ==
    {Json(TypeNumber), Json(PacketString), Json(DecodedList),
     Json(LatitudeString), Json(MyInfoString)}
\* an rx record of node 7 with the decoded position pos
PositionRecord(pos) ==
    JObj([type |-> JStr("rx"), ts |-> T2,
          packet |-> JObj([from |-> JNum(7),
                           decoded |-> JObj([portnum |-> JNum(3),
                                             position |-> JObj(pos)])])])

\* Positions in decimal degrees, with one coordinate only, and with a
\* longitude in degrees next to micro-degrees of which one is no number.
PositionLines ==
    {Json(PositionRecord([latitude |-> JNum(37), longitude |-> JNum(-122)])),
     Json(PositionRecord([latitude |-> JNum(37)])),
     Json(PositionRecord([longitude |-> JNum(3), latitudeI |-> JNum(377749000),
                          longitudeI |-> JStr("east")]))}

LinePool ==
    {BlankLine, TornLine} \cup NonObjectLines \cup RecordLines
        \cup MissingFieldLines \cup WrongTypeLines \cup PositionLines

\* The window specifications a request of the model may carry.
Requests ==
    {[mode |-> "lastfile", hours |-> 1, now |-> MaxHour + 1]}
        \cup [mode : {"hours"}, hours : {0, 1, 2, 200},
              now : {MaxHour + 1, MaxHour + 2, MAX_LOOKBACK_HOURS + MaxHour}]

\* The lines of the directories the queries run on.
QueryLines ==
    {Json(RxText), Json(RxEncrypted), Json(RxDevice), Json(RxDeviceEncrypted),
     Json(RxEnvironment), Json(RxPosition), Json(RxPrivate), Json(TxEcho),
     Json(Snapshot)}

MaxMsgs == 3

\* The directories the queries run on: empty, or one hourly file of up to
\* MaxMsgs lines.
QueryDisks ==
    {<<>>} \cup
    {<<[bucket |-> 0, mtime |-> Len(ls), lines |-> ls]>> :
        ls \in UNION {[1..n -> QueryLines] : n \in 1..MaxMsgs}}

\* The apps parameter as do_GET decodes it: the set of the names, {} when the
\* parameter is missing or empty.
AppFilters == {{}, {"TEXT_MESSAGE_APP"}}

OverviewQueries == [op : {"overview"}, enc : BOOLEAN, apps : AppFilters]

NodeQueries ==
    [op : {"node"}, node_id : {"!aaaa", "7"}, enc : BOOLEAN, apps : AppFilters]

\* my, from, to, q are "" when the parameter is missing (the handler's  or None).
MessageQueries ==
    [op : {"messages"}, enc : BOOLEAN, apps : AppFilters, my : {"", "!BBBB", "9"},
     from : {"", "!aaaa"}, to : {"", "!bbbb"}, dm : BOOLEAN, q : {"", "All"},
     limit : {0, 2, 999999}]

\* Lines held by the files of the directory.
RECURSIVE TotalLines(_, _)
TotalLines(d, i) ==
    IF i > Len(d) THEN 0 ELSE Len(d[i].lines) + TotalLines(d, i + 1)

\* The directory after one more line reached the file of bucket b (created
\* when missing); mtime is the logical time of the append.
Appended(d, b, line) ==
    LET now == TotalLines(d, 1) + 1
        old == SelectSeq(d, LAMBDA f : f.bucket = b)
        lines == IF Len(old) = 0 THEN <<>> ELSE old[1].lines
        f == [bucket |-> b, mtime |-> now, lines |-> Append(lines, line)]
    IN SelectSeq(d, LAMBDA x : x.bucket < b) \o <<f>>
           \o SelectSeq(d, LAMBDA x : x.bucket > b)

\* A line is appended to the hourly file of bucket b.
log_append ==
    /\ lpc = "idle"
    /\ TotalLines(disk, 1) < MaxLines
    /\ \E b \in Hours, line \in LinePool : disk' = Appended(disk, b, line)
    /\ UNCHANGED <<request, bundle, lpc, query, result, wvars, evars>>

NoRequest == [mode |-> "lastfile", hours |-> 1, now |-> MaxHour + 1]
NoBundle == [st |-> "none"]
NoQuery == [op |-> "none"]

\* No sniffer is under observation: no echo controls, no callback made.
NoEcho == [enabled |-> FALSE]
NoLabel == [variant |-> "none"]
\* USE_UTC = True, the setting both sniffers ship with
UtcClock == [utc |-> TRUE, offset |-> 0]
LabelIdle == labelled = NoLabel /\ opened = {} /\ zone = UtcClock
EchoIdle == echo_cfg = NoEcho /\ calls = <<>> /\ LabelIdle

\* A query handler calls load_bundle for a window specification of reqs.
load_for(reqs) ==
    /\ lpc = "idle"
    /\ \E req \in reqs :
         /\ request' = req
         /\ bundle' = load_bundle(disk, req)
    /\ lpc' = "loaded"
    /\ UNCHANGED <<disk, query, result, wvars, evars>>

load == load_for(Requests)

\* load_bundle is called once more, for the same window specification at the
\* same time, while the files are as they were.
reload ==
    /\ lpc = "loaded"
    /\ query' = [op |-> "load_bundle"]
    /\ result' = load_bundle(disk, request)
    /\ UNCHANGED <<disk, request, bundle, lpc, wvars, evars>>

\* do_GET: my_node_id = my_override or bundle.my_node_id
my_node(b, q) == IF q.my # "" THEN JStr(q.my) ELSE b.my_node_id

\* What the build function of query q returns for the Bundle b.
Answer(q, b) ==
    CASE q.op = "overview" -> build_overview(b, q.enc, q.apps)
      [] q.op = "node" -> build_node_detail(b, q.node_id, q.enc, q.apps)
      [] OTHER -> build_messages(b, q.enc, q.apps, my_node(b, q), q.from, q.to,
                                 q.dm, q.q, q.limit).rows

\* bundle.messages when the build function of query q has returned.
MessagesAfter(q, b) ==
    IF q.op = "messages"
    THEN build_messages(b, q.enc, q.apps, my_node(b, q), q.from, q.to,
                        q.dm, q.q, q.limit).messages
    ELSE b.messages

\* A build function is called on the loaded Bundle with a query of qs.
build(qs) ==
    /\ lpc = "loaded"
    /\ bundle.st = "ok"
    /\ \E q \in qs :
         /\ query' = q
         /\ result' = Answer(q, bundle.out)
         /\ bundle' = [bundle EXCEPT !.out.messages = MessagesAfter(q, bundle.out)]
    /\ UNCHANGED <<disk, request, lpc, wvars, evars>>

\* do_GET, /api/overview: build_overview on the Bundle just loaded
overview == query = NoQuery /\ build(OverviewQueries)

\* do_GET, /api/node: build_node_detail on the Bundle just loaded
node_detail == query = NoQuery /\ build(NodeQueries)

\* do_GET, /api/messages: build_messages on the Bundle just loaded
messages == query = NoQuery /\ build(MessageQueries)

\* The queries a caller that keeps a Bundle runs on it after the first one.
FollowUps ==
    {[op |-> "overview", enc |-> TRUE, apps |-> {}],
     [op |-> "node", node_id |-> "!aaaa", enc |-> TRUE, apps |-> {}],
     [op |-> "messages", enc |-> TRUE, apps |-> {}, my |-> "", from |-> "",
      to |-> "", dm |-> FALSE, q |-> "", limit |-> 1000]}

\* One more build function is called on a Bundle that was queried before.
requery == query # NoQuery /\ query.op # "load_bundle" /\ build(FollowUps)

\* The handler has sent its response: the bundle is query-local and dropped.
respond ==
    /\ lpc = "loaded"
    /\ lpc' = "idle"
    /\ request' = NoRequest
    /\ bundle' = NoBundle
    /\ query' = NoQuery
    /\ result' = NoBundle
    /\ UNCHANGED <<disk, wvars, evars>>

LoaderIdle ==
    /\ disk = <<>>
    /\ request = NoRequest
    /\ bundle = NoBundle
    /\ lpc = "idle"
    /\ query = NoQuery
    /\ result = NoBundle
    /\ EchoIdle

\* ------------------------------------------------------------ HTTP handler
\* int(s) of the parameter values of the model: the strings it parses; of
\* every other string it raises ValueError.
IntText == ("0" :> 0) @@ ("1" :> 1) @@ ("2" :> 2) @@ ("1000" :> 1000)

\* The GET requests of the model.  A parameter is "" when the query string
\* lacks it or gives it no value (parse_qs drops blank values).
HttpRequests ==
    [path : {"/api/overview", "/api/node", "/api/messages"},
     label : {"", "lab", "nodir"}, node_id : {"", "!aaaa"},
     mode : {"", "lastfile"}, hours : {"", "2", "abc"}, enc : {"", "0"},
     limit : {"", "0", "x"}]

\* q.get(k, [default])[0]
Param(h, k, default) == IF h[k] = "" THEN default ELSE h[k]

\* The files of root / label: the log root holds the one directory "lab".
label_dir(d, label) == IF label = "lab" THEN d ELSE <<>>

\* The build query the handler derives from the request h.
query_of(h) ==
    CASE h.path = "/api/overview" ->
            [op |-> "overview", enc |-> Param(h, "enc", "1") = "1", apps |-> {}]
      [] h.path = "/api/node" ->
            [op |-> "node", node_id |-> h.node_id,
             enc |-> Param(h, "enc", "1") = "1", apps |-> {}]
      [] OTHER ->
            [op |-> "messages", enc |-> Param(h, "enc", "1") = "1", apps |-> {},
             my |-> "", from |-> "", to |-> "", dm |-> FALSE, q |-> "",
             limit |-> IntText[Param(h, "limit", "1000")]]

\* The ids under key k of the messages, for the sorted lists from_ids and
\* to_ids of the messages response (given as sets).
ids_of(msgs, k) ==
    {msgs[i][k].s : i \in {j \in 1..Len(msgs) : Truthy(msgs[j][k])}}

\* The object the handler sends with status 200 for the Bundle b.
body_of(h, b) ==
    IF h.path = "/api/messages"
    THEN [messages |-> Answer(query_of(h), b),
          from_ids |-> ids_of(b.messages, "from_id"),
          to_ids |-> ids_of(b.messages, "to_id"),
          apps_available |-> b.app_set,
          my_node_id |-> my_node(b, query_of(h))]
    ELSE Answer(query_of(h), b)

\* _send_json(obj, code)
Sent(code, obj) == [st |-> "sent", code |-> code, body |-> obj]

\* do_GET for the request h on the directory d at time now: the response
\* sent, or Raise when an exception leaves do_GET before any is sent.  The
\* bundle is loaded once (loaded is the one-element set of its value).
do_GET(d, h, now) ==
    IF Param(h, "hours", "1") \notin DOMAIN IntText THEN Raise
    ELSE IF h.path = "/api/messages"
              /\ Param(h, "limit", "1000") \notin DOMAIN IntText THEN Raise
    ELSE IF h.label = "" THEN Sent(400, "missing label")
    ELSE IF h.path = "/api/node" /\ h.node_id = ""
    THEN Sent(400, "missing label or node_id")
    ELSE LET loaded == {load_bundle(label_dir(d, h.label),
                                    [mode |-> IF h.mode = "lastfile"
                                              THEN "lastfile" ELSE "hours",
                                     hours |-> IntText[Param(h, "hours", "1")],
                                     now |-> now])}
         IN CHOOSE r \in {IF b.st = "raise" THEN Raise
                          ELSE Sent(200, body_of(h, b.out)) : b \in loaded} :
                TRUE

\* The directories "lab" of the handler runs: without files, with a file of
\* records, and with a file whose snapshot has a myInfo that is no object.
HandlerDisks ==
    {<<>>,
     <<[bucket |-> 0, mtime |-> 1,
        lines |-> <<Json(Snapshot), Json(RxText), Json(RxPosition)>>]>>,
     <<[bucket |-> 0, mtime |-> 1,
        lines |-> <<Json(RxText), Json(MyInfoString)>>]>>}

\* One GET request for a path is handled from its first line to the response
\* or to the exception that ends it.
handle(path) ==
    /\ lpc = "idle"
    /\ \E h \in {x \in HttpRequests : x.path = path} :
         /\ request' = h
         /\ result' = do_GET(disk, h, MaxHour + 1)
    /\ lpc' = "handled"
    /\ UNCHANGED <<disk, bundle, query, wvars, evars>>

get_overview == handle("/api/overview")
get_node == handle("/api/node")
get_messages == handle("/api/messages")

\* The server is ready for the next request: do_GET has returned, or
\* handle_error has logged its exception and the connection is closed.
next_request ==
    /\ lpc = "handled"
    /\ lpc' = "idle"
    /\ request' = NoRequest
    /\ result' = NoBundle
    /\ UNCHANGED <<disk, bundle, query, wvars, evars>>

\* ------------------------------------------------------- sniffer: echo
ECHO_TEXT_APP_ONLY == TRUE

\* a or b or c
Or3(a, b, c) == Or(a, Or(b, c))

\* base64.b64decode(...).decode("utf-8") of the payloads of the model
B64Text == ("aGk=" :> "hi")

\* text.strip() of the texts of the model
Strip == ("hi" :> "hi") @@ ("  " :> "")

\* is_text_app(decoded)
is_text_app(decoded) ==
    LET pn == IF "portnum" \in DOMAIN decoded.o THEN decoded.o.portnum
              ELSE Get(decoded, "payloadVariant")
    IN CASE pn.t = "str" -> pn.s = "TEXT_MESSAGE_APP" \/ pn.s = "text_message_app"
         [] pn.t = "num" -> pn.n = 1 /\ pn.d = 1
         [] pn.t = "bool" -> pn.b
         [] OTHER -> FALSE

\* is_text_message(packet): [is_text, text]
is_text_message(packet) ==
    LET dec == Or(Get(packet, "decoded"), EmptyDict)
        raw == Or(Get(dec, "text"), Get(dec, "payload"))
        bytes == IsDict(raw) /\ "__bytes_b64" \in DOMAIN raw.o
        txt == IF ~bytes THEN raw
               ELSE IF raw.o["__bytes_b64"].t = "str"
                         /\ raw.o["__bytes_b64"].s \in DOMAIN B64Text
               THEN JStr(B64Text[raw.o["__bytes_b64"].s])
               ELSE JNull
        others == SelectSeq(<<Get(dec, "message"), Get(dec, "data")>>,
                            LAMBDA v : v.t = "str" /\ v.s # "")
    IN IF bytes /\ txt = JNull THEN [is_text |-> FALSE, text |-> JNull]
       ELSE IF txt.t = "str" /\ txt.s # "" THEN [is_text |-> TRUE, text |-> txt]
       ELSE IF others # <<>> THEN [is_text |-> TRUE, text |-> others[1]]
       ELSE [is_text |-> FALSE, text |-> JNull]

\* extract_ids(packet): one side (k = "fromId", alt = "from", alt2 = "from_id")
extract_id(packet, k, alt, alt2) ==
    LET direct == Or3(Get(packet, k), Get(packet, alt), Get(packet, alt2))
        rx == Get(packet, "rx")
        id == IF ~Truthy(direct) /\ IsDict(rx)
              THEN Or(Get(rx, k), Get(rx, alt))
              ELSE direct
    IN IF id = JNull THEN JNull ELSE JStr(Str(id))

\* a direct-message test that every packet passes
likely_direct_message_Any(packet, my_ids) == TRUE

\* likely_direct_message(packet, my_ids)
likely_direct_message(packet, my_ids) ==
    LET dec == Or(Get(packet, "decoded"), EmptyDict)
        to_id == extract_id(packet, "toId", "to", "to_id")
    IN \/ Get(dec, "isPrivate") = JBool(TRUE)
       \/ Get(dec, "dm") = JBool(TRUE)
       \/ /\ Truthy(my_ids.my_id_str)
          /\ Truthy(to_id)
          /\ Upper[to_id.s] = Upper[my_ids.my_id_str.s]
       \/ /\ my_ids.my_node_num # JNull
          /\ \/ Get(dec, "destination") = my_ids.my_node_num
             \/ Get(packet, "to") = my_ids.my_node_num

\* do_send_echo(i, dest_id, text): "none" when it returns before the send,
\* "sent" when i.sendText returns, "failed" when it raises (send_ok false);
\* the exception is caught and printed.
do_send_echo(cfg, dest_id, text, send_ok) ==
    IF ~(cfg.enabled /\ cfg.allow # {}) THEN "none"
    ELSE IF ~Truthy(dest_id) \/ ~Truthy(text) \/ Strip[text.s] = "" THEN "none"
    ELSE IF send_ok THEN "sent" ELSE "failed"

\* f"{ECHO_PREFIX}{text}" if ECHO_PREFIX else text
out_text(cfg, text) == JStr(cfg.prefix \o text.s)

\* topic_receive: the {"type": "rx", ...} event
rx_event(pkt) == JObj([type |-> JStr("rx"), ts |-> T1, packet |-> pkt])

\* topic_receive: the {"type": "tx_echo", ...} event
tx_echo_event(cfg, decoded, from_id, text) ==
    JObj([type |-> JStr("tx_echo"), ts |-> T2, dest |-> from_id,
          text |-> out_text(cfg, text),
          portnum |-> IF "portnum" \in DOMAIN decoded.o THEN decoded.o.portnum
                      ELSE Get(decoded, "payloadVariant")])

\* topic_receive: the gates between the rx event and do_send_echo let the
\* packet pass.
echo_gates(cfg, pkt) ==
    LET decoded == Or(Get(pkt, "decoded"), EmptyDict)
        t == is_text_message(pkt)
        from_id == extract_id(pkt, "fromId", "from", "from_id")
    IN /\ IsDict(decoded)
       /\ (ECHO_TEXT_APP_ONLY => is_text_app(decoded))
       /\ t.is_text /\ Truthy(t.text) /\ Strip[t.text.s] # ""
       /\ Truthy(from_id)
       /\ (cfg.allow = {} \/ Upper[from_id.s] \in cfg.allow)
       /\ likely_direct_message(pkt, cfg.my_ids)
       /\ ~(Truthy(cfg.my_ids.my_id_str)
              /\ Upper[from_id.s] = Upper[cfg.my_ids.my_id_str.s])

\* topic_receive(packet): the events it hands to WRITER.write, in order, and
\* what do_send_echo did.
topic_receive_call(cfg, pkt, send_ok) ==
    LET decoded == Or(Get(pkt, "decoded"), EmptyDict)
        text == is_text_message(pkt).text
        from_id == extract_id(pkt, "fromId", "from", "from_id")
    IN IF ~echo_gates(cfg, pkt)
       THEN [packet |-> pkt, send |-> "none", events |-> <<rx_event(pkt)>>]
       ELSE [packet |-> pkt,
             send |-> do_send_echo(cfg, from_id, text, send_ok),
             events |-> <<rx_event(pkt),
                          tx_echo_event(cfg, decoded, from_id, text)>>]

\* The packets the library delivers in the model, as safe_to_dict gives them.
TextPacket(from, to, text) ==
    JObj([fromId |-> JStr(from), toId |-> JStr(to),
          decoded |-> JObj([portnum |-> JStr("TEXT_MESSAGE_APP"),
                            text |-> JStr(text)])])

Packets ==
    {TextPacket("!aaaa", "!bbbb", "hi"), TextPacket("!aaaa", "^all", "hi"),
     TextPacket("!aaaa", "!bbbb", "  "), TextPacket("!bbbb", "!bbbb", "hi"),
     TextPacket("!cccc", "!bbbb", "hi"),
     RxPrivate.o.packet, RxPosition.o.packet,
     JObj([from |-> JNum(7), to |-> JNum(9),
           decoded |-> JObj([portnum |-> JNum(1),
                             payload |-> JObj([__bytes_b64 |-> JStr("aGk=")])])])}

\* ECHO_ENABLED, ALLOW_SET (upper-cased), ECHO_PREFIX and MY_IDS of a run.
EchoConfigs ==
    [enabled : BOOLEAN, allow : {{}, {"!AAAA", "!BBBB", "7"}, {"!AAAA", "!CCCC"}},
     prefix : {"", "ECHO BACK: "},
     my_ids : {[my_node_num |-> JNum(9), my_id_str |-> JStr("!bbbb")]}]

MaxPackets == 2

\* The hourly file of the label directory with the events appended.
Logged(d, events) ==
    LET before == IF d = <<>> THEN <<>> ELSE d[1].lines
        lines == before \o [j \in 1..Len(events) |-> Json(events[j])]
    IN <<[bucket |-> 0, mtime |-> Len(lines), lines |-> lines]>>

\* The library publishes a packet on "meshtastic.receive": topic_receive runs
\* from its first line to its return; WRITER.write appends each event.
meshtastic_receive ==
    /\ lpc = "idle"
    /\ Len(calls) < MaxPackets
    /\ \E pkt \in Packets, send_ok \in BOOLEAN :
         LET c == topic_receive_call(echo_cfg, pkt, send_ok)
         IN /\ calls' = Append(calls, c)
            /\ disk' = Logged(disk, c.events)
    /\ UNCHANGED <<request, bundle, lpc, query, result, echo_cfg, labelled,
                   opened, zone, wvars>>

\* The web UI loads the label directory the sniffer writes.
load_log ==
    /\ echo_cfg # NoEcho
    /\ load_for({NoRequest})

\* ------------------------------------------------------ sniffer: label
\* Strings are given as sequences of characters.  The characters of the
\* labels of the model, and those of them c.isalnum() holds of.
Chars == {"a", "7", "-", ":", ".", "/"}
Alnum == {"a", "7"}

\* The characters sanitize keeps besides the alphanumeric ones, in
\* meshtastic_sniffer_echo.py ("ble") and meshtastic_usb_sniffer_echo.py
\* ("usb").
Kept(variant) ==
    IF variant = "ble" THEN {"-", "_", ".", "+", "!", "@", ":"}
    ELSE {"-", "_", ".", "+", "!", "@"}

\* sanitize(s)
sanitize(variant, s) ==
    SelectSeq(s, LAMBDA c : c \in Alnum \/ c \in Kept(variant))

MaxLabel == 3

\* The label main() hands to the writer: LABEL.strip() or the label
\* resolved from the port or address; any string, the empty one included.
LabelArgs == UNION {[1..n -> Chars] : n \in 0..MaxLabel}

\* self.root / self.label, as the components below root that the path walks:
\* pathlib drops an empty component and ".", and keeps "..".
folder(label) ==
    IF label = <<>> \/ label = <<".">> THEN <<>> ELSE <<label>>

\* HourlyNDJSONWriter.__init__(root, label)
writer_init ==
    /\ labelled = NoLabel
    /\ \E v \in {"ble", "usb"}, arg \in LabelArgs :
         labelled' = [variant |-> v, arg |-> arg,
                      label |-> IF arg # <<>> THEN sanitize(v, arg)
                                ELSE <<"m", "e", "s", "h", "t", "a", "s", "t",
                                       "i", "c">>]
    /\ UNCHANGED <<opened, echo_cfg, calls, zone, lvars, wvars>>

\* _open_for_hour(hour_bucket): folder.mkdir, open(folder / fname, "a")
open_for_hour ==
    /\ labelled # NoLabel
    /\ \E h \in Hours :
         opened' = opened \cup
                     {[folder |-> folder(labelled.label),
                       fname |-> [label |-> labelled.label, hour |-> h]]}
    /\ UNCHANGED <<labelled, echo_cfg, calls, zone, lvars, wvars>>

\* ------------------------------------------------------- sniffer: clock
MaxInstant == 3

\* The clocks of a sniffer run: UTC, or the local clock (USE_UTC = False) one
\* hour west of UTC, at UTC, or one hour east of it.
Zones == {UtcClock} \cup [utc : {FALSE}, offset : {-1, 0, 1}]

\* now_ts()[1] at an instant of UTC hour e: the hour dt.strftime("%Y-%m-%d_%H")
\* prints, which is that of datetime.now(timezone.utc) or that of the local
\* datetime.now().astimezone().  Hours are counted from one fixed hour.
hour_bucket(z, e) == IF z.utc THEN e ELSE e + z.offset

\* The k-th packet of the run, as safe_to_dict gives it.
PacketAt(k) ==
    JObj([fromId |-> JStr("!aaaa"), toId |-> JStr("!bbbb"), id |-> JNum(k),
          decoded |-> JObj([portnum |-> JStr("TEXT_MESSAGE_APP"),
                            text |-> JStr("hi")])])

\* The hour of the last packet so far: time does not run backwards.
LastInstant == IF calls = <<>> THEN 1 ELSE calls[Len(calls)].at

\* topic_receive at an instant of UTC hour e: the rx event goes to the file
\* named after now_ts()[1]; the bucket of a file is the hour that
\* parse_hour_from_filename reads from its name, taking it as an hour of UTC.
packet_logged ==
    /\ lpc = "idle"
    /\ TotalLines(disk, 1) < MaxLines
    /\ \E e \in LastInstant..MaxInstant :
         LET pkt == PacketAt(Len(calls) + 1)
         IN /\ calls' = Append(calls, [packet |-> pkt, at |-> e, send |-> "none",
                                       events |-> <<rx_event(pkt)>>])
            /\ disk' = Appended(disk, hour_bucket(zone, e), Json(rx_event(pkt)))
    /\ UNCHANGED <<request, bundle, lpc, query, result, echo_cfg, labelled,
                   opened, zone, wvars>>

\* do_GET: load_bundle in hours mode, at an instant of UTC hour now.
load_hours ==
    load_for([mode : {"hours"}, hours : {0, 1, 2, 200},
              now : LastInstant..MaxInstant])

\* ------------------------------------------ loader: a file that grows
MaxTail == 3

\* The first part of the text of an event's line is in the file, the rest and
\* the "\n" are not yet: text that json.loads rejects.
FirstPart(evv) == [k |-> "head", v |-> evv]

\* The lines of the one hourly file of the run.
TailLines == IF disk = <<>> THEN <<>> ELSE disk[1].lines

\* The last line of the file is only partly in it.
Torn == TailLines # <<>> /\ TailLines[Len(TailLines)].k = "head"

\* The events a run of the sniffer writes next: the rx event of its next
\* packet or the record of an echo.
NextEvents == {rx_event(PacketAt(Len(TailLines) + 1)), TxEcho}

\* The directory when the hourly file holds lines.
TailDisk(lines) == <<[bucket |-> 0, mtime |-> Len(lines), lines |-> lines]>>

\* HourlyNDJSONWriter.write, self.fp.write(line + "\n"): the whole line becomes
\* visible to readers at once.
line_lands ==
    /\ ~Torn
    /\ Len(TailLines) < MaxTail
    /\ \E evv \in NextEvents : disk' = TailDisk(Append(TailLines, Json(evv)))
    /\ UNCHANGED <<request, bundle, lpc, query, result, wvars, evars>>

\* self.fp.write(line + "\n"): a reader can see the first part of the line
\* before the rest of it.
head_lands ==
    /\ ~Torn
    /\ Len(TailLines) < MaxTail
    /\ \E evv \in NextEvents : disk' = TailDisk(Append(TailLines, FirstPart(evv)))
    /\ UNCHANGED <<request, bundle, lpc, query, result, wvars, evars>>

\* The rest of the line and its "\n" reach the file.
tail_lands ==
    /\ Torn
    /\ disk' = TailDisk([TailLines EXCEPT ![Len(TailLines)] = Json(@.v)])
    /\ UNCHANGED <<request, bundle, lpc, query, result, wvars, evars>>

\* load_bundle up to  with open(f, "r", encoding="utf-8") as fp : the file is
\* chosen and opened; pos lines have been read, half tells that the text
\* read last was the first part of line pos + 1.
open_file ==
    /\ lpc = "idle"
    /\ disk # <<>>
    /\ request' = NoRequest
    /\ bundle' = [st |-> "reading", pos |-> 0, half |-> FALSE,
                  out |-> DataBundle(<<Chosen(disk, NoRequest)[1].bucket>>)]
    /\ lpc' = "reading"
    /\ UNCHANGED <<disk, query, result, wvars, evars>>

\* What  for line in fp  yields next from the file as it is now: a whole
\* line; the first part of a line whose rest is not in the file (end of file
\* inside the line); or, after such a part, the rest of that line.
NextLine ==
    IF bundle.half THEN TornLine ELSE TailLines[bundle.pos + 1]

\* The file as it is now has text the reader has not read.
MoreToRead ==
    IF bundle.half THEN TailLines[bundle.pos + 1].k # "head"
    ELSE bundle.pos < Len(TailLines)

\* load_bundle: one turn of  for line in fp ; an exception that is not
\* json.loads' leaves the file.
read_line ==
    /\ lpc = "reading"
    /\ MoreToRead
    /\ process_line(NextLine).st # "raise"
    /\ bundle' = [bundle EXCEPT
                    !.out = load_lines(<<NextLine>>, 1, @),
                    !.half = NextLine.k = "head",
                    !.pos = IF NextLine.k = "head" THEN @ ELSE @ + 1]
    /\ UNCHANGED <<disk, request, lpc, query, result, wvars, evars>>

\* load_bundle: the file iterator is exhausted (or the file was left); the
\* name map and the local node are computed and the Bundle is returned.
end_of_file ==
    /\ lpc = "reading"
    /\ MoreToRead => process_line(NextLine).st = "raise"
    /\ LET out == bundle.out
           nm == harvest_name_map_from_snapshots(out.snapshots, 1, <<>>)
           me == detect_my_node_from_snapshots(out.snapshots, 1)
       IN bundle' = IF nm.st = "raise" \/ me.st = "raise" THEN Raise
                    ELSE [st |-> "ok",
                          out |-> [out EXCEPT !.name_map = nm.nm,
                                              !.my_node_id = me.id]]
    /\ lpc' = "loaded"
    /\ UNCHANGED <<disk, request, query, result, wvars, evars>>

\* --------------------------------------------------------- specifications
\* HourlyNDJSONWriter.__init__ and main() up to snapshot(label="snapshot_start")
WriterInit ==
    /\ clock = 0
    /\ nextId = 1
    /\ faults = 0
    /\ proc = "running"
    /\ pc = [main |-> "m_start", snap |-> "s_top", cb |-> "cb_idle"]
    /\ ev = [t \in Threads |-> NoEvent]
    /\ bucket = [t \in Threads |-> NoHour]
    /\ outcome = "none"
    /\ cur_hour = NoHour
    /\ fp = NoFp
    /\ lock = NoThread
    /\ pending = <<>>
    /\ files = <<>>
    /\ synced = [h \in Hours |-> 0]
    /\ stop_event = FALSE
    /\ hpc = "none"
    /\ returned = {}
    /\ shutClosed = FALSE

Init == WriterInit /\ LoaderIdle

\* The label directory as a run of the sniffer left it, before a request.
QueryInit ==
    /\ WriterInit
    /\ disk \in QueryDisks
    /\ request = NoRequest
    /\ bundle = NoBundle
    /\ lpc = "idle"
    /\ query = NoQuery
    /\ result = NoBundle
    /\ EchoIdle

ThreadNext(t) ==
    \/ write_bucket(t)
    \/ write_enter(t)
    \/ write_append(t)
    \/ write_flush(t)

Next ==
    \/ main_snapshot_start
    \/ main_uncaught
    \/ periodic_snapshots
    \/ periodic_stop
    \/ topic_receive
    \/ topic_receive_echo
    \/ topic_receive_return
    \/ on_connection_established
    \/ \E t \in Threads : ThreadNext(t)
    \/ tick
    \/ shutdown_signal
    \/ shutdown_close
    \/ shutdown_exit
    \/ main_finally_close
    \/ main_finally_exit
    \/ restart

Spec == Init /\ [][Next]_vars

LoadNext ==
    \/ log_append
    \/ load
    \/ reload
    \/ respond

LoadSpec == Init /\ [][LoadNext]_vars

\* One request of the web UI: load, one build function, response.
QueryNext ==
    \/ load_for({NoRequest})
    \/ overview
    \/ node_detail
    \/ messages
    \/ respond

QuerySpec == QueryInit /\ [][QueryNext]_vars

\* A caller that keeps the loaded Bundle and queries it more than once.
ReuseNext ==
    \/ QueryNext
    \/ requery

ReuseSpec == QueryInit /\ [][ReuseNext]_vars

\* The web server handling one GET request after another.
HandlerInit ==
    /\ WriterInit
    /\ disk \in HandlerDisks
    /\ request = NoRequest
    /\ bundle = NoBundle
    /\ lpc = "idle"
    /\ query = NoQuery
    /\ result = NoBundle
    /\ EchoIdle

HandlerNext ==
    \/ get_overview
    \/ get_node
    \/ get_messages
    \/ next_request

HandlerSpec == HandlerInit /\ [][HandlerNext]_vars

\* A run of the sniffer that receives packets, and the web UI reading its log.
EchoInit ==
    /\ WriterInit
    /\ disk = <<>>
    /\ request = NoRequest
    /\ bundle = NoBundle
    /\ lpc = "idle"
    /\ query = NoQuery
    /\ result = NoBundle
    /\ echo_cfg \in EchoConfigs
    /\ calls = <<>>
    /\ LabelIdle

EchoNext ==
    \/ meshtastic_receive
    \/ load_log
    \/ respond

EchoSpec == EchoInit /\ [][EchoNext]_vars

\* A writer is built for a label and opens its hourly files.
LabelNext ==
    \/ writer_init
    \/ open_for_hour

LabelSpec == Init /\ [][LabelNext]_vars

\* A sniffer run with its clock setting, and the web UI reading its log.
ZoneInit ==
    /\ WriterInit
    /\ disk = <<>>
    /\ request = NoRequest
    /\ bundle = NoBundle
    /\ lpc = "idle"
    /\ query = NoQuery
    /\ result = NoBundle
    /\ echo_cfg = NoEcho
    /\ calls = <<>>
    /\ labelled = NoLabel
    /\ opened = {}
    /\ zone \in Zones

ZoneNext ==
    \/ packet_logged
    \/ load_hours
    \/ respond

ZoneSpec == ZoneInit /\ [][ZoneNext]_vars

\* The sniffer appends to the current hourly file while the web UI loads it.
TailNext ==
    \/ line_lands
    \/ head_lands
    \/ tail_lands
    \/ open_file
    \/ read_line
    \/ end_of_file
    \/ respond

TailSpec == Init /\ [][TailNext]_vars

\* ------------------------------------------------------------ properties
\* The positions (file, index) of the chunks handed to the OS.
Positions ==
    UNION {{<<h, k>> : k \in 1..Len(files[h])} : h \in DOMAIN files}

\* The lines of event i: the positions where its text starts.
LinesOf(i) ==
    {p \in Positions : files[p[1]][p[2]].ev.id = i /\ files[p[1]][p[2]].part = 1}

\* A file content made of whole lines only: the text of one event directly
\* followed by the end of that same event's line.
WholeLines(s) ==
    /\ Len(s) % 2 = 0
    /\ \A k \in 1..Len(s) :
         k % 2 = 1 => s[k].part = 1 /\ s[k + 1] = Chunk(s[k].ev, 2)

\* C1: every event lies in the file whose bucket label is the hour of the
\* event's own ts field.
C1_BucketIsEventHour ==
    \A p \in Positions : files[p[1]][p[2]].ev.tsHour = p[1]

\* C2: under concurrent write() calls of the receive callback and the snapshot
\* task, at most one thread is inside the locked region, the thread between
\* the two halves of its line holds the lock with only its own text buffered,
\* every file consists of whole lines, each line is one event, and every event
\* whose write() returned normally has exactly one line in exactly one file.
C2_WritesAreSerialized ==
    /\ Cardinality({t \in Threads : pc[t] \in {"w_append", "w_flush"}}) <= 1
    /\ \A t \in Threads :
         pc[t] = "w_flush" =>
             lock = t /\ fp.open /\ pending = <<Chunk(ev[t], 1)>>
    /\ \A h \in DOMAIN files : WholeLines(files[h])
    /\ \A i \in returned : Cardinality(LinesOf(i)) = 1

\* C2 witness: the receive callback is between the two halves of its line
\* while the snapshot task waits for the lock, after an earlier write returned.
C2_Witness ==
    /\ pc["cb"] = "w_flush"
    /\ pc["snap"] = "w_lock"
    /\ returned # {}

\* C3: the writer follows Closed -> OpenForHour(h).  The bucket changes only in
\* a write() that found another bucket or no file open, and becomes that
\* write's bucket; a write() with the same bucket and an open file keeps the
\* handle; and when a write() returns normally the writer is open on the file
\* of that write's bucket and the event is the last line of that file.
C3_WriterStateMachine ==
    [][/\ (cur_hour' # cur_hour /\ proc' = "running") =>
              \E t \in Threads :
                  /\ pc[t] = "w_lock"
                  /\ NeedsRotate(bucket[t])
                  /\ cur_hour' = bucket[t]
       /\ \A t \in Threads :
              (pc[t] = "w_lock" /\ pc'[t] = "w_append"
                   /\ ~NeedsRotate(bucket[t])) =>
                  fp' = fp /\ cur_hour' = cur_hour /\ files' = files
       /\ \A t \in Threads :
              (ev[t].id \notin returned /\ ev[t].id \in returned') =>
                  /\ cur_hour' = bucket[t]
                  /\ fp' = [file |-> bucket[t], open |-> TRUE]
                  /\ bucket[t] \in DOMAIN files'
                  /\ Len(files'[bucket[t]]) > 0
                  /\ files'[bucket[t]][Len(files'[bucket[t]])] = Chunk(ev[t], 2)
      ]_vars

\* What is left of the file of bucket h after a crash of the machine: the
\* chunks covered by the last successful fsync.
Durable(h) == SubSeq(files[h], 1, synced[h])

\* C4: every event whose write() has returned is durable: its whole line lies
\* in the synced part of its file, so that a crash loses at most the line
\* being written.
C4_ReturnedEventsAreDurable ==
    \A i \in returned :
        \E h \in DOMAIN files :
            \E k \in 1..Len(Durable(h)) :
                Durable(h)[k] = Chunk(Durable(h)[k].ev, 2)
                    /\ Durable(h)[k].ev.id = i

\* C5: log files are append-only across writes, rotations, close() and
\* restarts: no file disappears, every file's earlier content is a prefix of
\* its later content, and every line is one whole record.
C5_AppendOnly ==
    [][/\ \A h \in DOMAIN files :
              /\ h \in DOMAIN files'
              /\ Len(files[h]) <= Len(files'[h])
              /\ SubSeq(files'[h], 1, Len(files[h])) = files[h]
       /\ \A h \in DOMAIN files' : WholeLines(files'[h])
      ]_vars

\* C5 witness: one file holds the start-up snapshots of two runs of the
\* process: the second run appended to what the first one left.
C5_Witness ==
    \E h \in DOMAIN files :
        \E j, k \in 1..Len(files[h]) :
            /\ j < k
            /\ files[h][j].part = 2 /\ files[h][k].part = 2
            /\ files[h][j].ev.kind = "snapshot_start"
            /\ files[h][k].ev.kind = "snapshot_start"

\* C6: once shutdown() has closed the writer, the writer stays Closed and
\* nothing more is appended to any file.
C6_StaysClosedAfterShutdown ==
    [][shutClosed' => /\ fp' = NoFp
                      /\ (shutClosed => files' = files)]_vars

\* C7: no operation waits forever for the writer lock: whoever holds the lock
\* is able to run on and release it, so every write(), every close() and
\* shutdown() get through.
C7_LockHolderCanRun ==
    \A t \in Threads : lock = t => Runnable(t)

\* C8: a write() that raises is reported as a warning by its call site and
\* never ends the process.
C8_WriteFailureIsWarned ==
    /\ outcome \in {"none", "warned"}
    /\ proc # "died"

\* The lines held by the files of the directory d.
LinesOn(d) ==
    UNION {{d[i].lines[k] : k \in 1..Len(d[i].lines)} : i \in 1..Len(d)}

\* The directory d with the lines of the set dropped taken out of every file.
Without(d, dropped) ==
    [i \in 1..Len(d) |->
        [d[i] EXCEPT !.lines = SelectSeq(@, LAMBDA l : l \notin dropped)]]

\* a is b with some elements left out.
RECURSIVE IsSubSeq(_, _)
IsSubSeq(a, b) ==
    IF a = <<>> THEN TRUE
    ELSE IF b = <<>> THEN FALSE
    ELSE IF Head(a) = Head(b) THEN IsSubSeq(Tail(a), Tail(b))
    ELSE IsSubSeq(a, Tail(b))

\* Lines that are not a structured record: blank, not JSON, JSON but no object.
BadLines == {BlankLine, TornLine} \cup NonObjectLines

\* Records with a missing or wrongly-typed field.
FaultyRecordLines == MissingFieldLines \cup WrongTypeLines

\* C9: a load skips blank lines and lines that are not a structured record
\* without losing anything else: over files of well-formed records and such
\* lines, the Bundle is the one loaded from the same files without those lines.
C9_BadLinesAreSkipped ==
    (lpc = "loaded" /\ LinesOn(disk) \subseteq BadLines \cup RecordLines) =>
        bundle = load_bundle(Without(disk, BadLines), request)

\* C10: a record with a missing or wrongly-typed field costs at most itself:
\* the load succeeds and every well-formed record of the selected files,
\* before or after it, is in the Bundle, in file order.
C10_FaultyRecordCostsOnlyItself ==
    (lpc = "loaded"
        /\ LinesOn(disk) \subseteq RecordLines \cup FaultyRecordLines) =>
        /\ bundle.st = "ok"
        /\ LET good == load_bundle(Without(disk, FaultyRecordLines), request).out
           IN /\ IsSubSeq(good.messages, bundle.out.messages)
              /\ IsSubSeq(good.snapshots, bundle.out.snapshots)

\* A load in hours mode has returned a Bundle.
HoursLoaded ==
    lpc = "loaded" /\ request.mode = "hours" /\ bundle.st = "ok"

\* The hour the window of the request starts at: now minus the hours of the
\* request, after these were brought into 1..168.
Cutoff ==
    request.now - (IF request.hours < 1 THEN 1
                   ELSE IF request.hours > 168 THEN 168 ELSE request.hours)

\* The buckets of the files of the directory at or after the cutoff.
Recent == {disk[i].bucket : i \in {j \in 1..Len(disk) : disk[j].bucket >= Cutoff}}

\* s lists exactly the elements of the set, in ascending order.
Ascending(s, set) ==
    /\ {s[i] : i \in 1..Len(s)} = set
    /\ \A i, j \in 1..Len(s) : i < j => s[i] < s[j]

\* C11: in hours mode the hours are clamped to 1..168, the cutoff is now minus
\* that many hours, and whenever some file is at or after the cutoff the
\* loaded files are exactly the files at or after it, in ascending bucket
\* order.
C11_HoursWindowSelectsRecentFiles ==
    (HoursLoaded /\ Recent # {}) =>
        Ascending(bundle.out.files_loaded, Recent)

\* C11 witness: a load in hours mode took one file of the directory and left
\* an older one out.
C11_Witness ==
    /\ HoursLoaded
    /\ Recent # {}
    /\ \E i \in 1..Len(disk) : disk[i].bucket \notin Recent
    /\ Len(bundle.out.files_loaded) > 0

\* C12: when files exist and none is at or after the cutoff, hours mode loads
\* exactly one file, the one of the greatest bucket; a load never selects no
\* file while a file exists.
C12_WindowFallback ==
    (HoursLoaded /\ Len(disk) > 0) =>
        /\ Len(bundle.out.files_loaded) >= 1
        /\ Recent = {} =>
              /\ Len(bundle.out.files_loaded) = 1
              /\ \A i \in 1..Len(disk) :
                     disk[i].bucket <= bundle.out.files_loaded[1]

\* C12 witness: two files, both older than the cutoff, and a load in hours
\* mode that returned the later one.
C12_Witness ==
    /\ HoursLoaded
    /\ Len(disk) = 2
    /\ Recent = {}
    /\ bundle.out.files_loaded = <<disk[2].bucket>>

\* A load has returned a Bundle.
Loaded == lpc = "loaded" /\ bundle.st = "ok"

\* v is a user dict that carries a node id.
IsUser(v) == IsDict(v) /\ Truthy(Get(v, "id"))

\* The places where the snapshots name a node, in scan order: snapshot i, its
\* local identity (part 0) before its node table (part 1).
Mentions(snaps) ==
    UNION {
        (LET mi == snaps[i].myInfo
         IN IF IsDict(mi) /\ IsUser(Get(mi, "user"))
            THEN {[i |-> i, part |-> 0, user |-> Get(mi, "user")]} ELSE {})
        \cup
        (LET nodes == snaps[i].nodes
         IN IF IsDict(nodes)
            THEN {[i |-> i, part |-> 1, user |-> Get(nodes.o[k], "user")] :
                     k \in {x \in DOMAIN nodes.o :
                               IsDict(nodes.o[x]) /\ IsUser(Get(nodes.o[x], "user"))}}
            ELSE {})
        : i \in 1..Len(snaps)}

\* Mention a comes later in scan order than mention b.
Later(a, b) == a.i > b.i \/ (a.i = b.i /\ a.part > b.part)

\* The last of a non-empty set of mentions.
Last(c) == CHOOSE m \in c : \A o \in c : ~Later(o, m)

\* The mentions of node id.
MentionsOf(snaps, id) == {m \in Mentions(snaps) : Str(Get(m.user, "id")) = id}

\* The name fields a user dict gives: short and long, each when non-empty.
NamesIn(user) ==
    (IF Truthy(Get(user, "shortName"))
     THEN [short |-> Str(Get(user, "shortName"))] ELSE <<>>)
    @@ (IF Truthy(Get(user, "longName"))
        THEN [long |-> Str(Get(user, "longName"))] ELSE <<>>)

\* The first non-empty local identity of the snapshots, None when there is none.
FirstLocalId(snaps) ==
    LET c == {m \in Mentions(snaps) : m.part = 0}
    IN IF c = {} THEN JNull
       ELSE JStr(Str(Get((CHOOSE m \in c : \A o \in c : m.i <= o.i).user, "id")))

\* C13 as stated: the name map holds for each node the name fields of the
\* latest snapshot that mentions the node, and the local node id is the first
\* non-empty local identity of the snapshots.
C13_LatestSnapshotNamesWin ==
    Loaded =>
        LET snaps == bundle.out.snapshots
            nm == bundle.out.name_map
        IN /\ DOMAIN nm = {Str(Get(m.user, "id")) : m \in Mentions(snaps)}
           /\ \A id \in DOMAIN nm : nm[id] = NamesIn(Last(MentionsOf(snaps, id)).user)
           /\ bundle.out.my_node_id = FirstLocalId(snaps)

\* C13, amended: the name map holds an entry for each node the snapshots
\* mention; each of its fields (short, long) is the value of the latest
\* mention in scan order that gives a non-empty value for that field, and is
\* absent when no mention gives one; the local node id is the first non-empty
\* local identity of the snapshots.
C13_LatestNameWinsPerField ==
    Loaded =>
        LET snaps == bundle.out.snapshots
            nm == bundle.out.name_map
        IN /\ DOMAIN nm = {Str(Get(m.user, "id")) : m \in Mentions(snaps)}
           /\ \A id \in DOMAIN nm :
                \A f \in {"short", "long"} :
                    LET c == {m \in MentionsOf(snaps, id) : f \in DOMAIN NamesIn(m.user)}
                    IN /\ f \in DOMAIN nm[id] <=> c # {}
                       /\ c # {} => nm[id][f] = NamesIn(Last(c).user)[f]
           /\ bundle.out.my_node_id = FirstLocalId(snaps)

\* C13 witness: two snapshots with different local identities were loaded;
\* the later one renames one node and names another with a field the earlier
\* one did not give.
C13_Witness ==
    /\ Loaded
    /\ Len(bundle.out.snapshots) = 2
    /\ bundle.out.snapshots[2].ts = T2
    /\ bundle.out.my_node_id = JStr("!bbbb")
    /\ bundle.out.name_map["!bbbb"] = [short |-> "B2"]
    /\ bundle.out.name_map["!aaaa"] = [short |-> "A2", long |-> "Alpha"]

Queried == lpc = "loaded" /\ bundle.st = "ok" /\ query # NoQuery

\* C15: the build functions leave the Bundle as the load returned it
\* (messages and their order, snapshots, name map, app set, file list) for
\* every combination of filter arguments, so every query of a sequence run on
\* one Bundle returns what it returns on a fresh load.
C15_QueriesAreReadOnly ==
    Queried =>
        LET fresh == load_bundle(disk, request)
        IN /\ bundle = fresh
           /\ result = Answer(query, fresh.out)

\* The second half of C15 alone: the result of every query of a sequence is
\* the one a fresh load gives.
SameResultAsOnFreshLoad ==
    Queried => result = Answer(query, load_bundle(disk, request).out)

\* build_overview has returned on the Bundle of a request.
OverviewDone == Queried /\ query.op = "overview"

\* The positions of the Bundle's messages that pass the filters of the query:
\* not encrypted unless encrypted ones are included, and of an app of the
\* app filter when that is not empty.
Passing ==
    {i \in 1..Len(bundle.out.messages) :
        /\ (query.enc \/ bundle.out.messages[i].is_encrypted # JBool(TRUE))
        /\ (query.apps = {} \/ bundle.out.messages[i].app \in query.apps)}

\* The positions, among those of the set, of the messages sent by node id.
SentBy(set, id) == {i \in set : bundle.out.messages[i].from_id = JStr(id)}

\* The from-ids of the messages at the positions of the set.
Senders(set) ==
    {bundle.out.messages[i].from_id.s :
        i \in {j \in set : /\ bundle.out.messages[j].from_id.t = "str"
                           /\ bundle.out.messages[j].from_id.s # ""}}

\* The sum of the values of a function with a finite domain.
RECURSIVE SumOf(_)
SumOf(f) ==
    IF DOMAIN f = {} THEN 0
    ELSE LET k == CHOOSE x \in DOMAIN f : TRUE
         IN f[k] + SumOf([x \in DOMAIN f \ {k} |-> f[x]])

\* C16: the overview has exactly one row for each from-id of the messages that
\* pass the filters; messages without a from-id are in no row; the total of a
\* row is the number of passing messages of its node and the sum of its
\* per-app counts.  (The app filter TEXT_MESSAGE_APP without encrypted
\* messages over an encrypted text and a plain telemetry message: no row.)
C16_OverviewRowsAreThePassingSenders ==
    OverviewDone =>
        LET rows == result.nodes
        IN /\ {rows[k].node_id : k \in 1..Len(rows)} = Senders(Passing)
           /\ Len(rows) = Cardinality(Senders(Passing))
           /\ \A k \in 1..Len(rows) :
                /\ rows[k].total_msgs = Cardinality(SentBy(Passing, rows[k].node_id))
                /\ rows[k].total_msgs = SumOf(rows[k].app_counts)

\* C16 witness: the Bundle holds one encrypted text message and one plain
\* telemetry message, and the overview for the app filter TEXT_MESSAGE_APP
\* without encrypted messages has no row.
C16_Witness ==
    /\ OverviewDone
    /\ query.apps = {"TEXT_MESSAGE_APP"} /\ ~query.enc
    /\ Len(bundle.out.messages) = 2
    /\ \E i, j \in 1..2 :
          /\ bundle.out.messages[i].app = "TEXT_MESSAGE_APP"
          /\ bundle.out.messages[i].is_encrypted = JBool(TRUE)
          /\ bundle.out.messages[j].app = "TELEMETRY_APP"
          /\ bundle.out.messages[j].is_encrypted = JBool(FALSE)
    /\ result.nodes = <<>>

\* The positions of the Bundle's messages, filtered or not, that node id sent
\* with metrics of the kind key ("deviceMetrics" / "environmentMetrics").
Carrying(id, key) ==
    {i \in 1..Len(bundle.out.messages) :
        LET m == bundle.out.messages[i]
        IN /\ m.from_id = JStr(id)
           /\ m.telemetry.t = "obj"
           /\ key \in DOMAIN m.telemetry.o
           /\ m.telemetry.o[key].t = "obj"}

\* The metrics of the last message in scan order that node id sent with
\* metrics of the kind key, stamped with that message's time; None when the
\* node sent none.
LatestMetrics(id, key) ==
    IF Carrying(id, key) = {} THEN JNull
    ELSE LET i == CHOOSE x \in Carrying(id, key) : \A y \in Carrying(id, key) : y <= x
             m == bundle.out.messages[i]
         IN JObj(m.telemetry.o[key].o @@ [ts |-> iso(to_utc(m.ts))])

\* C17: in every row of the overview the device and the environment telemetry
\* are those of the last message in scan order, among all messages of the
\* Bundle whatever the encryption and app filters, that the node sent with
\* metrics of that kind.
C17_LatestTelemetryIgnoresFilters ==
    OverviewDone =>
        \A k \in 1..Len(result.nodes) :
            /\ result.nodes[k].device =
                   LatestMetrics(result.nodes[k].node_id, "deviceMetrics")
            /\ result.nodes[k].environment =
                   LatestMetrics(result.nodes[k].node_id, "environmentMetrics")

\* C17 witness: an overview restricted to plain text messages shows, in the
\* row of a node, the device metrics of the node's encrypted telemetry
\* message, which came after an earlier plain one.
C17_Witness ==
    /\ OverviewDone
    /\ query.apps = {"TEXT_MESSAGE_APP"} /\ ~query.enc
    /\ Len(result.nodes) = 1
    /\ Cardinality(Carrying(result.nodes[1].node_id, "deviceMetrics")) = 2
    /\ result.nodes[1].device =
           JObj([batteryLevel |-> JNum(50), ts |-> JStr("2025-01-01T00:20:00+00:00")])

\* build_node_detail has returned on the Bundle of a request.
NodeDone == Queried /\ query.op = "node"

\* The positions, among those of the set, of the messages that carry the
\* signal value f ("rxRssi" / "rxSnr").
WithSample(set, f) == {i \in set : bundle.out.messages[i][f] # JNull}

\* The signal value f of the message at position i (whole numbers in the
\* model).
Sample(i, f) == bundle.out.messages[i][f].n

\* The k-th smallest of the samples of f at the positions of the set.
Kth(set, f, k) ==
    CHOOSE v \in {Sample(i, f) : i \in set} :
        /\ Cardinality({i \in set : Sample(i, f) < v}) < k
        /\ Cardinality({i \in set : Sample(i, f) <= v}) >= k

\* r is the statistical median of the samples of f at the positions of the
\* set: absent when there is none, else the mean of the two middle values
\* (which are one value when the number of samples is odd).
IsMedian(r, set, f) ==
    IF set = {} THEN r = JNull
    ELSE LET n == Cardinality(set)
         IN /\ r.t = "num"
            /\ 2 * r.n = (Kth(set, f, (n + 1) \div 2) + Kth(set, f, n \div 2 + 1)) * r.d

\* C18: the median RSSI and the median SNR of a node, in the overview and in
\* the node detail, are the statistical median of the samples of the node's
\* passing messages: the middle value of an odd number of samples, the mean of
\* the two middle values of an even number, absent (never zero) without a
\* sample; a message lacking the value gives no sample.
C18_MedianOfSamples ==
    /\ OverviewDone =>
         \A k \in 1..Len(result.nodes) :
             LET mine == SentBy(Passing, result.nodes[k].node_id)
             IN /\ IsMedian(result.nodes[k].median_rssi, WithSample(mine, "rxRssi"), "rxRssi")
                /\ IsMedian(result.nodes[k].median_snr, WithSample(mine, "rxSnr"), "rxSnr")
    /\ NodeDone =>
         LET mine == SentBy(Passing, query.node_id)
         IN /\ IsMedian(result.median_rssi, WithSample(mine, "rxRssi"), "rxRssi")
            /\ IsMedian(result.median_snr, WithSample(mine, "rxSnr"), "rxSnr")

\* C18 witness: a node with the RSSI samples -80, -90, -70 in this order has
\* the median RSSI -80; its SNR samples 5 and 7 have the median 6.
C18_Witness ==
    /\ OverviewDone
    /\ Len(bundle.out.messages) = 3
    /\ [i \in 1..3 |-> bundle.out.messages[i].rxRssi] = <<JNum(-80), JNum(-90), JNum(-70)>>
    /\ Len(result.nodes) = 1
    /\ result.nodes[1].total_msgs = 3
    /\ result.nodes[1].median_rssi = JNum(-80)
    /\ result.nodes[1].median_snr = JNum(6)

\* The even-sized example of C18: the RSSI samples -80, -90 have the median
\* -85, and a message without RSSI adds no sample.
EvenSampleMedian ==
    /\ NodeDone
    /\ Len(bundle.out.messages) = 3
    /\ [i \in 1..3 |-> bundle.out.messages[i].rxRssi] = <<JNum(-80), JNum(-90), JNull>>
    /\ result.total_msgs = 3
    /\ result.median_rssi = JNum(-85)
    /\ result.median_snr = JNum(5)

\* The instant, in minutes, that a timestamp of a result denotes.
InstantOf(v) == CHOOSE n \in DOMAIN IsoText : IsoText[n] = v.s

\* The instants of the parseable timestamps of the messages at the positions
\* of the set.
TimesOf(set) ==
    {to_utc(bundle.out.messages[i].ts).at :
        i \in {j \in set : to_utc(bundle.out.messages[j].ts) # JNull}}

\* v is the timestamp of the earliest instant of the set, absent when the set
\* is empty.
IsEarliest(v, times) ==
    IF times = {} THEN v = JNull
    ELSE /\ v # JNull
         /\ InstantOf(v) \in times
         /\ \A t \in times : InstantOf(v) <= t

\* v is the timestamp of the latest instant of the set, absent when the set is
\* empty.
IsLatest(v, times) ==
    IF times = {} THEN v = JNull
    ELSE /\ v # JNull
         /\ InstantOf(v) \in times
         /\ \A t \in times : InstantOf(v) >= t

\* C19: the rows of the overview are in descending order of last-heard, every
\* row without a last-heard after every row with one; the first-heard of a row
\* is the earliest and its last-heard the latest parseable timestamp of the
\* node's passing messages, so first-heard <= last-heard.
C19_OverviewNewestFirst ==
    OverviewDone =>
        LET rows == result.nodes
        IN /\ \A k, l \in 1..Len(rows) :
                (k < l /\ rows[l].last_heard # JNull) =>
                    /\ rows[k].last_heard # JNull
                    /\ InstantOf(rows[k].last_heard) >= InstantOf(rows[l].last_heard)
           /\ \A k \in 1..Len(rows) :
                LET times == TimesOf(SentBy(Passing, rows[k].node_id))
                IN /\ IsEarliest(rows[k].first_heard, times)
                   /\ IsLatest(rows[k].last_heard, times)
                   /\ rows[k].first_heard # JNull =>
                          InstantOf(rows[k].first_heard) <= InstantOf(rows[k].last_heard)

\* C19 witness: the node heard first has no parseable timestamp and its row
\* comes last; the other node was heard at 00:05 and at 02:10+02:00, that is
\* 00:10 UTC.
C19_Witness ==
    /\ OverviewDone
    /\ Len(bundle.out.messages) = 3
    /\ bundle.out.messages[1].from_id = JStr("7")
    /\ Len(result.nodes) = 2
    /\ result.nodes[1].node_id = "!aaaa"
    /\ result.nodes[1].first_heard = JStr("2025-01-01T00:05:00+00:00")
    /\ result.nodes[1].last_heard = JStr("2025-01-01T00:10:00+00:00")
    /\ result.nodes[2].node_id = "7"
    /\ result.nodes[2].last_heard = JNull

\* Two rows with a last-heard each: the node heard later comes first though
\* its first message came second.
LaterNodeFirst ==
    /\ OverviewDone
    /\ Len(result.nodes) = 2
    /\ bundle.out.messages[1].from_id = JStr("!aaaa")
    /\ result.nodes[1].node_id = "7"
    /\ result.nodes[2].last_heard # JNull

\* The k-th position of the set, in ascending order.
Nth(set, k) == CHOOSE i \in set : Cardinality({j \in set : j < i}) = k - 1

\* s lists one point for each position of the set, in message order, the
\* point of position i being point[i].
ListsInOrder(s, set, point) ==
    /\ Len(s) = Cardinality(set)
    /\ \A k \in 1..Len(s) : s[k] = point[Nth(set, k)]

\* The time stamp of the points of message i.
Stamp(i) == iso(to_utc(bundle.out.messages[i].ts))

\* C20: the node detail keeps the messages that pass the encryption and app
\* filters of the overview and whose from-id is the node id.  It lists one
\* signal point for each kept message, one device / environment telemetry
\* point for each kept message carrying metrics of that kind, and one position
\* point for each kept message with a resolved position, all in message order.
C20_NodeDetailSeries ==
    NodeDone =>
        LET msgs == bundle.out.messages
            kept == SentBy(Passing, query.node_id)
            dev == kept \cap Carrying(query.node_id, "deviceMetrics")
            env == kept \cap Carrying(query.node_id, "environmentMetrics")
            located == {i \in kept : msgs[i].position # JNull}
        IN /\ result.total_msgs = Cardinality(kept)
           /\ ListsInOrder(result.radio_quality, kept,
                  [i \in kept |-> [ts |-> Stamp(i), rxRssi |-> msgs[i].rxRssi,
                                   rxSnr |-> msgs[i].rxSnr]])
           /\ ListsInOrder(result.telemetry_device, dev,
                  [i \in dev |-> JObj(msgs[i].telemetry.o["deviceMetrics"].o
                                         @@ [ts |-> Stamp(i)])])
           /\ ListsInOrder(result.telemetry_env, env,
                  [i \in env |-> JObj(msgs[i].telemetry.o["environmentMetrics"].o
                                         @@ [ts |-> Stamp(i)])])
           /\ ListsInOrder(result.positions, located,
                  [i \in located |-> [ts |-> Stamp(i),
                                      lat |-> msgs[i].position.o["lat"],
                                      lon |-> msgs[i].position.o["lon"],
                                      altitude |-> Get(msgs[i].position, "altitude")]])

\* C20 witness: the detail of a node, without encrypted messages, over a
\* Bundle that holds a plain and a later encrypted telemetry message of the
\* node: one device point, one signal point.
C20_Witness ==
    /\ NodeDone
    /\ ~query.enc /\ query.apps = {} /\ query.node_id = "!aaaa"
    /\ Cardinality(Carrying("!aaaa", "deviceMetrics")) = 2
    /\ Len(result.telemetry_device) = 1
    /\ Len(result.radio_quality) = 1

\* The detail of a node with an environment and a position message: one
\* point in each of these series, two signal points.
PositionSeriesPoint ==
    /\ NodeDone
    /\ query.node_id = "7"
    /\ Len(result.positions) = 1
    /\ Len(result.telemetry_env) = 1
    /\ Len(result.radio_quality) = 2

\* --------------------------------------------------------- message queries
MessagesDone == Queried /\ query.op = "messages"

\* The local node id a messages query works with: the my parameter of the
\* request when given, else the id the Bundle derived from its snapshots.
LocalNode == IF query.my # "" THEN JStr(query.my) ELSE bundle.out.my_node_id

\* Two node ids that are both present and equal but for letter case.
SameNode(a, b) ==
    /\ a.t = "str" /\ a.s # ""
    /\ b.t = "str" /\ b.s # ""
    /\ Upper[a.s] = Upper[b.s]

\* The packet of message m carries an explicit private / DM flag.
Flagged(m) == m.decoded_isPrivate = JBool(TRUE) \/ m.decoded_dm = JBool(TRUE)

\* Message m is a direct message for the query.
IsDM(m) == Flagged(m) \/ SameNode(m.to_id, LocalNode)

\* Message m has a text that contains the search word of the query, letter
\* case ignored.
HasWord(m) == m.text.t = "str" /\ Substring(Lower[query.q], Lower[m.text.s])

\* The positions of the Bundle's messages that satisfy every active step of
\* the messages query.
Matching ==
    {i \in Passing :
        LET m == bundle.out.messages[i]
        IN /\ (query.from = "" \/ m.from_id = JStr(query.from))
           /\ (query.to = "" \/ m.to_id = JStr(query.to))
           /\ (~query.dm \/ IsDM(m))
           /\ (query.q = "" \/ HasWord(m))}

\* What identifies a message in a row of the response and in the Bundle.
MsgKey(m) == <<m.ts, m.from_id, m.to_id, m.app, m.text>>

\* How many rows of the response, and how many of the messages at the
\* positions of the set, have key k.
RowsWith(k) == Cardinality({j \in 1..Len(result) : MsgKey(result[j]) = k})
MessagesWith(set, k) ==
    Cardinality({i \in set : MsgKey(bundle.out.messages[i]) = k})

\* C21: a messages query whose limit does not cut the result returns exactly
\* the messages that satisfy every active filter step (encrypted excluded
\* unless included, app in the app set, exact from-id, exact to-id, direct
\* message, text containing the search word case-insensitively, a message
\* without text never matching): each of them once per occurrence, and no
\* other; a step that is not active removes nothing.
C21_MessagesAreTheMatchingOnes ==
    (MessagesDone /\ query.limit >= Cardinality(Matching)) =>
        /\ Len(result) = Cardinality(Matching)
        /\ \A k \in {MsgKey(result[j]) : j \in 1..Len(result)}
                    \cup {MsgKey(bundle.out.messages[i]) : i \in Matching} :
               RowsWith(k) = MessagesWith(Matching, k)

\* A text query by sender keeps the one message whose text contains the word
\* in another letter case, and drops a message without text and one with
\* another text.
C21_Witness ==
    /\ MessagesDone /\ query.limit >= Cardinality(Matching)
    /\ query.q = "All" /\ query.from = "!aaaa"
    /\ Len(result) = 1 /\ result[1].text = JStr("Hi all")
    /\ \E i \in Passing : bundle.out.messages[i].text = JNull
    /\ \E i \in Passing : bundle.out.messages[i].text = JStr("hi")

\* The positions of the Bundle's messages that row j of the response shows.
ShownBy(j) ==
    {i \in 1..Len(bundle.out.messages) :
        MsgKey(bundle.out.messages[i]) = MsgKey(result[j])}

\* C22: a message is a direct message when its packet carries an explicit
\* private / DM flag, and otherwise exactly when its to-id equals the local
\* node id but for letter case, the local node id being the override of the
\* request when given and else the id derived from the Bundle's snapshots;
\* without a local node id and without a flag it is none.  The is_dm of every
\* row says so, and the DM-only step keeps exactly the direct messages.
C22_DirectMessageInference ==
    MessagesDone =>
        /\ \A j \in 1..Len(result) :
               /\ ShownBy(j) # {}
               /\ \A i \in ShownBy(j) :
                      Truthy(result[j].is_dm) <=> IsDM(bundle.out.messages[i])
        /\ (query.dm /\ query.limit >= Cardinality(Matching)) =>
               Len(result) = Cardinality(Matching)

\* A DM-only query with the override "!BBBB" keeps the message sent to
\* "!bbbb" and the one flagged private that was sent to another node, and
\* drops a message sent to node 9.
C22_Witness ==
    /\ MessagesDone /\ query.dm /\ query.my = "!BBBB"
    /\ query.limit >= Cardinality(Matching)
    /\ \E j \in 1..Len(result) :
          /\ result[j].to_id = JStr("!bbbb") /\ result[j].is_dm = JBool(TRUE)
    /\ \E j \in 1..Len(result) :
          /\ result[j].to_id = JStr("!aaaa") /\ result[j].is_dm = JBool(TRUE)
    /\ \E i \in Passing \ Matching : bundle.out.messages[i].to_id = JStr("9")

\* The timestamp v of a row denotes an instant.
Parseable(v) == v.t = "str" /\ v.s \in DOMAIN Instants

\* C23: the rows of a messages response are in descending order of the
\* instants their timestamps denote, and a row whose timestamp denotes none
\* comes after every row whose timestamp denotes one.
C23_MessagesNewestFirst ==
    MessagesDone =>
        \A j, k \in 1..Len(result) :
            (j < k /\ Parseable(result[k].ts)) =>
                /\ Parseable(result[j].ts)
                /\ Instants[result[j].ts.s] >= Instants[result[k].ts.s]

\* Three rows: 00:20 UTC, then 02:10+02:00 (00:10 UTC), then "yesterday".
C23_Witness ==
    /\ MessagesDone /\ Len(result) = 3
    /\ result[1].ts = T2 /\ result[2].ts = T3
    /\ result[3].ts = JStr("yesterday")

\* The smaller of two numbers.
Least(a, b) == IF a < b THEN a ELSE b

\* The limit as the claim clamps it.
Clamped(limit) ==
    IF limit <= 0 THEN 1 ELSE IF limit >= 5000 THEN 5000 ELSE limit

\* The instant a timestamp sorts by: that it denotes, or one before all.
SortInstant(v) == IF Parseable(v) THEN Instants[v.s] ELSE -1

\* The keys of the matching messages that the response leaves out.
LeftOut ==
    {k \in {MsgKey(bundle.out.messages[i]) : i \in Matching} :
        RowsWith(k) < MessagesWith(Matching, k)}

\* Limits and numbers of matching messages on both sides of the clamp.
LimitsTried == {-3, 0, 1, 2, 4999, 5000, 5001, 999999}
CountsTried == {0, 1, 2, 3, 4999, 5000, 5001, 6000}

\* C24: the limit is clamped to [1, 5000] (0 or less counts as 1, 999999 as
\* 5000) and the response holds the first min(clamped limit, number of
\* matching messages) rows of the sorted sequence: that many rows, all of
\* them matching messages, none older than a matching message left out.
C24_LimitIsClamped ==
    MessagesDone =>
        /\ Len(result) = Least(Clamped(query.limit), Cardinality(Matching))
        /\ \A j \in 1..Len(result) :
               /\ RowsWith(MsgKey(result[j]))
                     <= MessagesWith(Matching, MsgKey(result[j]))
               /\ \A k \in LeftOut :
                      SortInstant(result[j].ts) >= SortInstant(k[1])
        /\ \A l \in LimitsTried, n \in CountsTried :
               page_size(l, n) = Least(Clamped(l), n)

\* A query with limit 0 on three matching messages of different instants
\* returns the newest one alone.
C24_Witness ==
    /\ MessagesDone /\ query.limit = 0
    /\ Cardinality(Matching) = 3 /\ Cardinality(LeftOut) = 2
    /\ Len(result) = 1 /\ result[1].ts = T2

\* ------------------------------------------------------------ HTTP handler
\* A request has been handled, to its response or to its exception.
Handled == lpc = "handled"

\* The request lacks a parameter its path requires: the label, and for
\* /api/node the node id.
MissingRequired ==
    request.label = "" \/ (request.path = "/api/node" /\ request.node_id = "")

\* The object of a successful response shows no node, sample or message.
EmptyBody ==
    CASE request.path = "/api/overview" -> result.body.nodes = <<>>
      [] request.path = "/api/node" -> result.body.total_msgs = 0
      [] OTHER -> result.body.messages = <<>>

\* C25: every request to /api/overview, /api/node and /api/messages gets a
\* response: 400 exactly when a required parameter is missing, whatever the
\* other parameters are, and otherwise a successful one, which is empty when
\* the label directory is missing or holds no file; no value of hours or
\* limit makes the handler end without a response.
C25_EveryRequestIsAnswered ==
    Handled =>
        /\ result.st = "sent"
        /\ result.code = 400 <=> MissingRequired
        /\ ~MissingRequired =>
               /\ result.code = 200
               /\ (label_dir(disk, request.label) = <<>>) => EmptyBody

\* ----------------------------------------------------------- sniffer: echo
\* The events the topic_receive calls from call i on handed to the writer.
RECURSIVE EventsFrom(_)
EventsFrom(i) ==
    IF i > Len(calls) THEN <<>> ELSE calls[i].events \o EventsFrom(i + 1)

\* The web UI has loaded the log of the sniffer run.
LogLoaded == echo_cfg # NoEcho /\ lpc = "loaded" /\ bundle.st = "ok"

\* Message m shows what the rx event e was written with.
ShowsReceived(m, e) ==
    LET pkt == e.o.packet
        decoded == Or(Get(pkt, "decoded"), EmptyDict)
    IN /\ m.from_id = extract_id(pkt, "fromId", "from", "from_id")
       /\ m.to_id = extract_id(pkt, "toId", "to", "to_id")
       /\ is_text_app(decoded) => m.app = "TEXT_MESSAGE_APP"
       /\ m.text = Get(decoded, "text")

\* Message m shows the echo the tx_echo event e records.
ShowsEcho(m, e) ==
    /\ m.to_id = e.o.dest
    /\ m.text = e.o.text
    /\ m.app = "TEXT_MESSAGE_APP"

\* C26: every rx and tx_echo event the sniffer appends carries the nested
\* packet object the loader reads, so the loaded log has one Message per
\* event, with the from-id, to-id, app-type and text the event was written
\* with (for a tx_echo: the echoed text, its destination and the app-type
\* TEXT_MESSAGE_APP).
C26_RecordShapeRoundTrip ==
    LogLoaded =>
        /\ Len(bundle.out.messages) = Len(EventsFrom(1))
        /\ \A i \in 1..Len(bundle.out.messages) :
               LET e == EventsFrom(1)[i]
               IN /\ "packet" \in DOMAIN e.o
                  /\ IF e.o.type = JStr("rx")
                     THEN ShowsReceived(bundle.out.messages[i], e)
                     ELSE ShowsEcho(bundle.out.messages[i], e)

\* ---------------------------------------------------------- sniffer: label
\* The characters a label may consist of: alphanumerics and - _ . + ! @ :
LabelChars == Alnum \cup {"-", "_", ".", "+", "!", "@", ":"}

\* C27: every file the writer opens is <root>/<label>/<label>_<hour>.ndjson
\* with a label that is not empty and consists of alphanumerics and the
\* characters - _ . + ! @ : only, the same in both sniffer variants, so that
\* the file lies in a sub-directory of root.
C27_FilesLieUnderTheLabel ==
    \A p \in opened :
        /\ p.fname.label # <<>>
        /\ \A i \in 1..Len(p.fname.label) : p.fname.label[i] \in LabelChars
        /\ labelled.arg # <<>> =>
               /\ p.fname.label = sanitize("ble", labelled.arg)
               /\ p.fname.label = sanitize("usb", labelled.arg)
        /\ p.folder = <<p.fname.label>>
        /\ p.folder # <<<<".", ".">>>>

\* ----------------------------------------------------- sniffer: echo gates
\* The calls in which sendText was called and returned: an echo was sent.
EchoesSent == {i \in 1..Len(calls) : calls[i].send = "sent"}

\* The sender and the addressee of a packet, as strings.
SenderOf(pkt) == extract_id(pkt, "fromId", "from", "from_id")
AddresseeOf(pkt) == extract_id(pkt, "toId", "to", "to_id")

\* The packet is a TEXT_MESSAGE_APP packet, by name or by number.
IsTextApp(pkt) ==
    /\ "decoded" \in DOMAIN pkt.o
    /\ "portnum" \in DOMAIN pkt.o.decoded.o
    /\ pkt.o.decoded.o.portnum \in {JStr("TEXT_MESSAGE_APP"), JNum(1)}

\* The packet has a text that is not blank.
HasText(pkt) ==
    /\ is_text_message(pkt).is_text
    /\ is_text_message(pkt).text.s \notin {"", "  "}

\* The packet is addressed to the local node, by id or by node number.
ToLocalNode(pkt) ==
    \/ SameNode(AddresseeOf(pkt), echo_cfg.my_ids.my_id_str)
    \/ /\ echo_cfg.my_ids.my_node_num # JNull
       /\ Get(pkt, "to") = echo_cfg.my_ids.my_node_num

\* The packet itself carries a private / DM flag.
FlaggedPacket(pkt) ==
    /\ "decoded" \in DOMAIN pkt.o
    /\ \/ Get(pkt.o.decoded, "isPrivate") = JBool(TRUE)
       \/ Get(pkt.o.decoded, "dm") = JBool(TRUE)

\* The sender is on the allow-list, letter case ignored, and is not the local
\* node.
AllowedSender(pkt) ==
    /\ SenderOf(pkt) # JNull
    /\ Upper[SenderOf(pkt).s] \in echo_cfg.allow
    /\ ~SameNode(SenderOf(pkt), echo_cfg.my_ids.my_id_str)

EchoesLogged ==
    {i \in 1..Len(calls) :
        \E j \in 1..Len(calls[i].events) :
            calls[i].events[j].o.type = JStr("tx_echo")}

\* C30: a tx_echo event is appended only when the auto-reply to the packet
\* was actually sent: none when echo is disabled, when the allow-list is
\* empty, or when the send-text call fails.
C30_EchoLoggedOnlyWhenSent ==
    /\ EchoesLogged \subseteq EchoesSent
    /\ (~echo_cfg.enabled \/ echo_cfg.allow = {}) => EchoesLogged = {}

\* ---------------------------------------------------------------- positions
\* The rx / tx_echo records among the lines from line i on.
RECURSIVE RecordsOf(_, _)
RecordsOf(lines, i) ==
    IF i > Len(lines) THEN <<>>
    ELSE (IF /\ lines[i].k = "json" /\ IsDict(lines[i].v)
             /\ Get(lines[i].v, "type") \in {JStr("rx"), JStr("tx_echo")}
          THEN <<lines[i].v>> ELSE <<>>) \o RecordsOf(lines, i + 1)

\* The rx / tx_echo records of the files loaded, from the k-th of them on,
\* in load order.
RECURSIVE RecordsLoaded(_)
RecordsLoaded(k) ==
    IF k > Len(bundle.out.files_loaded) THEN <<>>
    ELSE LET f == CHOOSE i \in 1..Len(disk) :
                      disk[i].bucket = bundle.out.files_loaded[k]
         IN RecordsOf(disk[f].lines, 1) \o RecordsLoaded(k + 1)

\* The decoded position of a record, None when it has none.
DecodedPosition(rec) ==
    LET pkt == Or(Get(rec, "packet"), EmptyDict)
    IN Get(Or(Get(pkt, "decoded"), EmptyDict), "position")

\* The coordinates a decoded position resolves to: both given in decimal
\* degrees, or both given in micro-degrees, which are scaled by 1e-7; None
\* when neither pair is complete and numeric.
Resolved(pos) ==
    IF pos = JNull THEN JNull
    ELSE IF Get(pos, "latitude").t = "num" /\ Get(pos, "longitude").t = "num"
    THEN [lat |-> Get(pos, "latitude"), lon |-> Get(pos, "longitude")]
    ELSE IF Get(pos, "latitudeI").t = "num" /\ Get(pos, "longitudeI").t = "num"
    THEN [lat |-> [Get(pos, "latitudeI") EXCEPT !.d = 10000000],
          lon |-> [Get(pos, "longitudeI") EXCEPT !.d = 10000000]]
    ELSE JNull

\* The coordinates of the position of a Message, None when it has none.
Coordinates(m) ==
    IF m.position = JNull THEN JNull
    ELSE [lat |-> Get(m.position, "lat"), lon |-> Get(m.position, "lon")]

\* The lines with a decoded position, and those without a fault.
PositionCases == PositionLines \cup {Json(RxPosition), Json(LatitudeString)}

\* C29: every record loaded yields a Message, which carries a position only
\* if both coordinates resolve, both as decimal degrees or both as
\* micro-degrees scaled by 1e-7, and no position when a coordinate does not
\* resolve.
C29_PositionNeedsBothCoordinates ==
    (Loaded /\ LinesOn(disk) \subseteq RecordLines \cup PositionCases) =>
        /\ Len(bundle.out.messages) = Len(RecordsLoaded(1))
        /\ \A i \in 1..Len(bundle.out.messages) :
               Coordinates(bundle.out.messages[i])
                   = Resolved(DecodedPosition(RecordsLoaded(1)[i]))

\* ------------------------------------------------------ sniffer: rx logging
\* The positions of a thread inside WRITER.write.
InWrite == {"w_bucket", "w_lock", "w_append", "w_flush"}

\* The number of lines of event i in the files fs.
LineCount(fs, i) ==
    Cardinality(UNION {{<<h, k>> : k \in {j \in 1..Len(fs[h]) :
                                              fs[h][j].ev.id = i
                                                  /\ fs[h][j].part = 1}} :
                       h \in DOMAIN fs})

\* C31: every packet delivered to the receive callback produces exactly one
\* rx event, appended before the echo decision: when the rx write() of the
\* callback ends in a running process, without an I/O operation failing in the
\* step that ends it, the log holds exactly one line of that rx event; and the
\* echo gates are reached only with that line in the log.
C31_EveryPacketIsLogged ==
    [][/\ (/\ ev["cb"].kind = "rx"
           /\ pc["cb"] \in InWrite
           /\ pc'["cb"] \notin InWrite
           /\ proc' = "running"
           /\ faults' = faults) =>
              LineCount(files', ev["cb"].id) = 1
       /\ (pc["cb"] \in InWrite /\ pc'["cb"] = "cb_echo") =>
              LineCount(files', ev["cb"].id) = 1
      ]_vars

\* -------------------------------------------------------- writer: rotation
\* C32: the writer's current bucket never moves backwards: while the process
\* runs, no write() sets cur_hour to an earlier bucket than the one the writer
\* is in, and nothing is appended to the file of a bucket earlier than the
\* current one.
C32_BucketNeverMovesBack ==
    [][proc' = "running" =>
           /\ cur_hour' >= cur_hour
           /\ \A h \in DOMAIN files :
                  h < cur_hour => files'[h] = files[h]
      ]_vars

\* ------------------------------------------------------ writer: state
\* C33: whenever the writer lock is free, the writer holds no file handle, or
\* it holds one open handle, which is the handle of the file of the current
\* bucket cur_hour.
C33_WriterStateInvariant ==
    LockFree => \/ fp = NoFp
                \/ fp.open /\ fp.file = cur_hour

\* C34: recovery after a failed rotation: when the writer is in bucket
\* cur_hour without an open handle on that bucket's file (the open of the
\* rotation failed), a later write() in the same bucket, during which no I/O
\* operation fails, opens the file of that bucket and goes on to append its
\* line to it instead of raising.
C34_RecoversAfterFailedRotation ==
    [][\A t \in Threads :
           /\ (/\ pc[t] = "w_lock"
               /\ pc'[t] # "w_lock"
               /\ bucket[t] = cur_hour
               /\ ~(fp.open /\ fp.file = cur_hour)
               /\ faults' = faults
               /\ proc' = "running") =>
                  /\ fp' = [file |-> bucket[t], open |-> TRUE]
                  /\ pc'[t] = "w_append"
           /\ (/\ pc[t] = "w_append"
               /\ pc'[t] # "w_append"
               /\ bucket[t] = cur_hour
               /\ proc' = "running") =>
                  pc'[t] = "w_flush"
      ]_vars

\* --------------------------------------------------- writer: order of lines
\* C39: within each log file the ts fields of consecutive lines are
\* non-decreasing, in every interleaving of the receive callback and the
\* snapshot task.
C39_FileOrderIsTimeOrder ==
    \A h \in DOMAIN files :
        \A j, k \in 1..Len(files[h]) :
            j < k => files[h][j].ev.tsHour <= files[h][k].ev.tsHour

\* ------------------------------------------------- sniffer clock and window
\* The Bundle holds the Message of the rx event of call i.
Holds(i) ==
    \E j \in 1..Len(bundle.out.messages) :
        bundle.out.messages[j].id = calls[i].packet.o.id

\* C35: every rx event the writer appended less than n hours ago
\* (1 <= n <= 168) is in the Bundle that load returns for hours(n), with the
\* writer on the UTC clock and on the local clock at any offset.  In whole
\* hours: an event of hour e is less than n hours old at some instant of hour
\* now exactly when now - e <= n.
C35_RecentEventsAreLoaded ==
    (/\ lpc = "loaded"
     /\ bundle.st = "ok"
     /\ request.mode = "hours"
     /\ request.hours \in 1..MAX_LOOKBACK_HOURS) =>
        \A i \in 1..Len(calls) :
            request.now - calls[i].at <= request.hours => Holds(i)

\* ------------------------------------------------ overview and node detail
\* An overview row and a node detail report the same node summary.
SameSummary(row, detail) ==
    /\ row.total_msgs = detail.total_msgs
    /\ row.first_heard = detail.first_heard
    /\ row.last_heard = detail.last_heard
    /\ row.median_rssi = detail.median_rssi
    /\ row.median_snr = detail.median_snr
    /\ row.name = detail.name

\* The rows the overview has for node id under the filters of the query.
RowsOfNode(id) ==
    LET rows == build_overview(bundle.out, query.enc, query.apps).nodes
    IN {rows[j] : j \in {k \in 1..Len(rows) : rows[k].node_id = id}}

\* C37: overview and node detail agree: under the same filters, the node
\* detail of every node id that has an overview row reports the row's total
\* count, first-heard, last-heard, median RSSI, median SNR and display name,
\* and the node detail of a node id without an overview row has total count 0.
C37_OverviewAndDetailAgree ==
    /\ OverviewDone =>
           \A j \in 1..Len(result.nodes) :
               SameSummary(result.nodes[j],
                           build_node_detail(bundle.out, result.nodes[j].node_id,
                                             query.enc, query.apps))
    /\ NodeDone =>
           /\ \A row \in RowsOfNode(query.node_id) : SameSummary(row, result)
           /\ RowsOfNode(query.node_id) = {} => result.total_msgs = 0

\* C37 witness: the detail of a node with three messages, heard out of time
\* order and with two RSSI samples, next to its overview row; and the detail
\* of a node without a row.
C37_Witness ==
    /\ NodeDone
    /\ \E row \in RowsOfNode(query.node_id) :
          /\ row.total_msgs = 3
          /\ row.first_heard # row.last_heard
          /\ row.median_rssi = JNum(-85)
          /\ to_utc(bundle.out.messages[1].ts).at > to_utc(bundle.out.messages[2].ts).at

\* The other case of C37: a node without an overview row while other nodes
\* have one.
DetailWithoutRow ==
    /\ NodeDone
    /\ RowsOfNode(query.node_id) = {}
    /\ build_overview(bundle.out, query.enc, query.apps).nodes # <<>>
    /\ result.total_msgs = 0

\* ------------------------------------------------- DM filter and is_dm rows
\* A DM-only messages query has returned.
DmOnlyDone == MessagesDone /\ query.dm

\* The rows of the same query without the DM-only step.
RowsWithoutDmOnly ==
    build_messages(bundle.out, query.enc, query.apps,
                   my_node(bundle.out, query), query.from, query.to, FALSE,
                   query.q, query.limit).rows

\* The limit of the query cuts neither result: the messages that pass the
\* other filter steps are not more than the clamped limit.
CutsNeither ==
    Len(select_messages(bundle.out.messages, query.enc, query.apps,
                        my_node(bundle.out, query), query.from, query.to, FALSE,
                        query.q))
        <= Clamp(query.limit, 1, MAX_MESSAGES_RETURN)

\* C38: the DM-only filter and the is_dm field of the rows use the same
\* classification: every row of a DM-only query has is_dm true, and when the
\* limit cuts neither result the rows of the DM-only query are exactly the
\* rows of the same query without DM-only whose is_dm is true, in their order.
C38_DmFilterMatchesIsDm ==
    DmOnlyDone =>
        /\ \A j \in 1..Len(result) : result[j].is_dm = JBool(TRUE)
        /\ CutsNeither =>
               result = SelectSeq(RowsWithoutDmOnly,
                                  LAMBDA r : r.is_dm = JBool(TRUE))

\* C38 witness: a DM-only query that keeps a message flagged private and one
\* sent to the local node, while the same query without DM-only has a third
\* row, which is no direct message.
C38_Witness ==
    /\ DmOnlyDone /\ CutsNeither
    /\ Len(result) = 2
    /\ Len(RowsWithoutDmOnly) = 3
    /\ \E j \in 1..2 : Flagged(bundle.out.messages[CHOOSE i \in ShownBy(j) : TRUE])
    /\ \E j \in 1..2 : \A i \in ShownBy(j) : ~Flagged(bundle.out.messages[i])

\* The Messages of the events written to the file so far, the one whose line
\* is partly in the file included, in the order of their lines.
WrittenMessages ==
    load_lines([i \in 1..Len(TailLines) |-> Json(TailLines[i].v)], 1,
               DataBundle(<<>>)).messages

\* a is a prefix of b
IsPrefix(a, b) == Len(a) <= Len(b) /\ \A i \in 1..Len(a) : a[i] = b[i]

\* C36: a load that ran while the writer was appending to the file returns
\* normally, and its messages are a prefix of the normalized rx/tx_echo events
\* written to the file: a line that was partly in the file when read gives no
\* Message and no event after a loaded one is missing.
C36_ConcurrentLoadReadsAPrefix ==
    lpc = "loaded" =>
        /\ bundle.st = "ok"
        /\ IsPrefix(bundle.out.messages, WrittenMessages)
====
